---- MODULE Spec2Model ----
(***************************************************************************)
(* mdchat server: the per-connection client threads (client.rs), the       *)
(* listener (listener.rs), the message handler thread (message_queue.rs)   *)
(* and the process-wide registries CLIENT_LIST, USER_LIST, MESSAGE_LIST    *)
(* and MESSAGE_QUEUE they share.                                           *)
(***************************************************************************)
EXTENDS Integers, Sequences, FiniteSets, TLC

\* ------------------------------------------------------------------ bounds
\* Number of connections the listener accepts in a run.
NSess == 2
\* Number of distinct peer socket addresses.
NAddr == 2
\* Number of SendMessage commands accepted in a run.
MaxMsgs == 2
\* Number of Login commands a client thread reads from one connection.
MaxLogins == 1
\* The same, when a single connection is followed on its own.
MaxRelogins == 2
\* Largest message id passed to a direct call of set_last_sent_msg_id.
MaxDirId == 3

Sessions == 1..NSess
Addrs == 1..NAddr

\* Nicknames are byte strings: "a", the control byte BEL, "r" and "".
Nicks == {<<97>>, <<7>>, <<114>>, <<>>}
Passwords == {"pw", "nope"}

\* Option<T>
\* SendMessage texts as byte sequences: one ordinary text, the empty text and
\* a text longer than MessageMaxLen.
Hello == <<104>>
Texts == {Hello, <<>>, <<104, 104, 104>>}
None == <<>>
Some(x) == <<x>>

\* ------------------------------------------------------------ pure helpers
\* user.rs is_valid_nickname: non-empty, every byte in 0x20..=0x7E.
is_valid_nickname(candidate) ==
    IF Len(candidate) = 0 THEN FALSE
    ELSE \A i \in 1..Len(candidate) : candidate[i] >= 32 /\ candidate[i] <= 126

\* The nickname filter the server was started with: the default lengths,
\* nothing allow-listed, one banned pattern (the regular expression "r").
ConfigMinLen == 1
ConfigMaxLen == 255
ConfigAllowedNicknames == {}
ConfigBannedPatterns == {114}

\* Regex::is_match for a one-byte literal pattern: an unanchored search.
is_match(pattern, nick) == \E i \in 1..Len(nick) : nick[i] = pattern

\* nickname.rs NicknameFilteringConfig::is_allowed
is_allowed_nickname(nick) ==
    IF nick \in ConfigAllowedNicknames THEN TRUE
    ELSE IF \E p \in ConfigBannedPatterns : is_match(p, nick) THEN FALSE
    ELSE TRUE

\* PASSWD_CRYPT.encrypt: the stored hash of a password (injective, not the
\* password itself).
encrypt_password(password) == <<"sha512", password>>

Min(S) == CHOOSE x \in S : \A y \in S : x <= y

\* The descriptions of the Error frames the server writes (NICK stands for the
\* quoted nickname formatted into the text; an io::Error's text is its kind).
NotAllowedText == "NICK is not an allowed nickname due to regulations."
AlreadyExistsText == "NICK is already existing user account"
NotExistingText == "User with nickname NICK does not exist"
InvalidPasswordText == "Invalid password"
NotLoggedInText == "Tried to send a message while not logged in"
IoErrorText == "io::Error"

\* Frames written to a session's stream.
LoginSuccessFrame ==
    [kind |-> "LoginSuccess", id |-> 0, via |-> "login", to |-> None, desc |-> ""]
ErrorFrame(description) ==
    [kind |-> "Error", id |-> 0, via |-> "error", to |-> None, desc |-> description]
MessageRecvFrame(id, via, to) ==
    [kind |-> "MessageRecv", id |-> id, via |-> via, to |-> to, desc |-> ""]

\* ------------------------------------------------------------------- state
VARIABLES
    USER_LIST,      \* nickname -> [hash, last]          (user_list.rs)
    LAST_ID,        \* last allocated message id         (message_list.rs)
    MESSAGE_LIST,   \* id -> message                     (message_list.rs); a message
                    \* is its sender, and as history its order of acceptance
                    \* (stamp) and the session it came from
    MESSAGE_QUEUE,  \* pending messages, front first     (message_queue.rs)
    CLIENT_LIST,    \* set of [addr, sess] entries       (client_list.rs)
    poisoned,       \* CLIENT_LIST's lock is poisoned by a panicking writer
    crashed,        \* the message handler panicked: main's join().unwrap() ends the process
    pc,             \* client thread position, per session
    addr,           \* peer socket address, per session
    stream,         \* stream state, per session
    nickname,       \* Client.nickname, per session
    req,            \* the login request a registering session is processing
    cursor,         \* replay position of a session in login
    out,            \* frames written to the session's stream, in order
    auth,           \* history: how the session's nickname was bound
    k0,             \* history: last_sent_msg_id of the user when login verified
    lpc, lsess,     \* listener position and the connection it is adding
    replaced,       \* history: add_connection overwrote an existing entry
    wpc, wmsg, wid, wtodo,  \* message handler position, message, id, addresses left
    sent,           \* number of SendMessage commands accepted so far
    logins,         \* number of Login commands read, per session
    call,           \* the last direct call of a user_list function and its outcome
    conf,           \* a Config value built by direct calls of serverconf
    confcall,       \* the last direct call on conf and its outcome
    confops,        \* number of direct calls on conf so far
    wire,           \* the bytes a peer has written to one stream so far
    closed,         \* whether that peer has closed its end
    rpos,           \* how many bytes of wire recv_command has read
    rpc,            \* where recv_command on that stream stands
    rlen,           \* the data_len of the header it has read
    rresult,        \* what its last call returned
    slock,          \* whether a thread holds the write lock of one Client's stream
    spc,            \* where the client thread stands in send_command or error
    scmd,           \* the command the client thread is sending
    ipc,            \* where the message handler stands in its send to that client
    peer,           \* the chunks that client's peer has received, in order
    sstream,        \* state of that client's stream
    nsend,          \* sends started so far, per thread
    held,           \* the lock guards each thread holds
    prog,           \* the lock operations left in the call each thread is in
    ncalls,         \* calls started so far, per thread
    lenconf,        \* a NicknameFilteringConfig and a MessageFilteringConfig
    lencall,        \* the last direct call on one of the two and its outcome
    lenops          \* number of direct calls on the two so far

vars == <<USER_LIST, LAST_ID, MESSAGE_LIST, MESSAGE_QUEUE, CLIENT_LIST, poisoned,
          crashed, pc, addr, stream, nickname, req, cursor, out, auth, k0,
          lpc, lsess, replaced, wpc, wmsg, wid, wtodo, sent, logins, call,
          conf, confcall, confops, wire, closed, rpos, rpc, rlen, rresult,
          slock, spc, scmd, ipc, peer, sstream, nsend, held, prog, ncalls,
          lenconf, lencall, lenops>>

frameVars == <<wire, closed, rpos, rpc, rlen, rresult>>
sendVars == <<slock, spc, scmd, ipc, peer, sstream, nsend>>
lockVars == <<held, prog, ncalls>>
lenVars == <<lenconf, lencall, lenops>>
directVars == <<conf, confcall, confops, frameVars, sendVars, lockVars, lenVars>>
userVars == <<USER_LIST, call, directVars>>
logVars == <<LAST_ID, MESSAGE_LIST>>
regVars == <<CLIENT_LIST, poisoned, replaced>>
listenerVars == <<lpc, lsess>>
workerVars == <<wpc, wmsg, wid, wtodo>>

\* ---------------------------------------------------------------- serverconf
\* Config::message_min_len keeps its default; message_max_len is the value a
\* configuration line "message-length-max 2" stores.
ConfigMessageMinLen == 1
ConfigMessageMaxLen == 2

\* The largest NonZeroU8 and NonZeroU16.
NonZeroU8Max == 255
NonZeroU16Max == 65535

MaxIp == 3
MaxFileLen == 2
MaxConfOps == 2

Max(S) == CHOOSE x \in S : \A y \in S : y <= x

\* An IpAddr: its family (4 or 6) and its value within the family.
IpAddr(fam, n) == [fam |-> fam, n |-> n]
IpAddrs == {IpAddr(fam, n) : fam \in {4, 6}, n \in 1..MaxIp}
\* A token that is not an IP address.
NoIp == IpAddr(0, 0)

\* str::parse for the argument types of the options.
parse_ip(token) == IF token.fam \in {4, 6} THEN Some(token) ELSE None
parse_u8(num) == IF num >= 1 /\ num <= NonZeroU8Max THEN Some(num) ELSE None
parse_u16(num) == IF num >= 1 /\ num <= NonZeroU16Max THEN Some(num) ELSE None
\* Regex::new for a one-byte pattern: "(" alone is not a regular expression.
regex_new(pattern) == IF pattern = 40 THEN None ELSE Some(pattern)

Ok(config) == [config |-> config, ok |-> TRUE]
Err(config) == [config |-> config, ok |-> FALSE]

\* ip.rs IpFilteringConfig
IpFilteringConfig_new ==
    [v4_allowed |-> {}, v4_banned |-> {}, v4_banned_ranges |-> {},
     v6_allowed |-> {}, v6_banned |-> {}, v6_banned_ranges |-> {}]

IpFilteringConfig_append(self, other) ==
    [v4_allowed |-> self.v4_allowed \cup other.v4_allowed,
     v4_banned |-> self.v4_banned \cup other.v4_banned,
     v4_banned_ranges |-> self.v4_banned_ranges \cup other.v4_banned_ranges,
     v6_allowed |-> self.v6_allowed \cup other.v6_allowed,
     v6_banned |-> self.v6_banned \cup other.v6_banned,
     v6_banned_ranges |-> self.v6_banned_ranges \cup other.v6_banned_ranges]

IpFilteringConfig_allow(self, ip) ==
    IF ip.fam = 4 THEN [self EXCEPT !.v4_allowed = @ \cup {ip.n}]
    ELSE [self EXCEPT !.v6_allowed = @ \cup {ip.n}]

IpFilteringConfig_ban(self, ip) ==
    IF ip.fam = 4 THEN [self EXCEPT !.v4_banned = @ \cup {ip.n}]
    ELSE [self EXCEPT !.v6_banned = @ \cup {ip.n}]

\* A ban_range that stores the bounds as they were given.
IpFilteringConfig_ban_range_as_given(self, from, to) ==
    IF from.fam = 4 /\ to.fam = 4
    THEN Ok([self EXCEPT !.v4_banned_ranges = @ \cup {<<from.n, to.n>>}])
    ELSE IF from.fam = 6 /\ to.fam = 6
    THEN Ok([self EXCEPT !.v6_banned_ranges = @ \cup {<<from.n, to.n>>}])
    ELSE Err(self)

IpFilteringConfig_ban_range(self, from, to) ==
    IF from.fam = 4 /\ to.fam = 4
    THEN Ok([self EXCEPT !.v4_banned_ranges =
                 @ \cup {<<Min({from.n, to.n}), Max({from.n, to.n})>>}])
    ELSE IF from.fam = 6 /\ to.fam = 6
    THEN Ok([self EXCEPT !.v6_banned_ranges =
                 @ \cup {<<Min({from.n, to.n}), Max({from.n, to.n})>>}])
    ELSE Err(self)

\* RangeInclusive::contains
range_contains(range, n) == range[1] <= n /\ n <= range[2]

\* An is_allowed that looks at the banned entries before the allow-list.
IpFilteringConfig_is_allowed_ban_first(self, ip) ==
    IF ip.fam = 4
    THEN IF ip.n \in self.v4_banned THEN FALSE
         ELSE IF ip.n \in self.v4_allowed THEN TRUE
         ELSE IF \E range \in self.v4_banned_ranges : range_contains(range, ip.n) THEN FALSE
         ELSE TRUE
    ELSE IF ip.n \in self.v6_banned THEN FALSE
         ELSE IF ip.n \in self.v6_allowed THEN TRUE
         ELSE IF \E range \in self.v6_banned_ranges : range_contains(range, ip.n) THEN FALSE
         ELSE TRUE

IpFilteringConfig_is_allowed(self, ip) ==
    IF ip.fam = 4
    THEN IF ip.n \in self.v4_allowed THEN TRUE
         ELSE IF ip.n \in self.v4_banned THEN FALSE
         ELSE IF \E range \in self.v4_banned_ranges : range_contains(range, ip.n) THEN FALSE
         ELSE TRUE
    ELSE IF ip.n \in self.v6_allowed THEN TRUE
         ELSE IF ip.n \in self.v6_banned THEN FALSE
         ELSE IF \E range \in self.v6_banned_ranges : range_contains(range, ip.n) THEN FALSE
         ELSE TRUE

\* nickname.rs NicknameFilteringConfig; banned is a Vec.
NicknameFilteringConfig_new ==
    [min_len |-> ConfigMinLen, max_len |-> ConfigMaxLen, allowed |-> {}, banned |-> <<>>]

NicknameFilteringConfig_append(self, other) ==
    [min_len |-> other.min_len,
     max_len |-> other.max_len,
     allowed |-> self.allowed \cup other.allowed,
     banned |-> self.banned \o other.banned]

\* A set_min_len that does not look at the maximum.
set_min_len_unchecked(self, min_len) == Ok([self EXCEPT !.min_len = min_len])

set_min_len(self, min_len) ==
    IF min_len > self.max_len THEN Err(self)
    ELSE Ok([self EXCEPT !.min_len = min_len])

set_max_len(self, max_len) ==
    IF max_len < self.min_len THEN Err(self)
    ELSE Ok([self EXCEPT !.max_len = max_len])

MessageFilteringConfig_new ==
    [min_len |-> 1, max_len |-> NonZeroU16Max, banned |-> <<>>]

MessageFilteringConfig_append(self, other) ==
    [min_len |-> other.min_len,
     max_len |-> other.max_len,
     banned |-> self.banned \o other.banned]

MessageFilteringConfig_set_min_len(self, min_len) ==
    IF min_len > self.max_len THEN Err(self)
    ELSE Ok([self EXCEPT !.min_len = min_len])

MessageFilteringConfig_set_max_len(self, max_len) ==
    IF max_len < self.min_len THEN Err(self)
    ELSE Ok([self EXCEPT !.max_len = max_len])

NicknameFilteringConfig_is_allowed(self, nick) ==
    IF nick \in self.allowed THEN TRUE
    ELSE IF \E i \in DOMAIN self.banned : is_match(self.banned[i], nick) THEN FALSE
    ELSE TRUE

\* A configuration line after the split at whitespace: the option, for a
\* nickname line its sub-command, the number of arguments that follow, and the
\* arguments by type (unused ones keep their filler value).
Line(option, command, argc, ip1, ip2, num, text) ==
    [option |-> option, command |-> command, argc |-> argc, ip1 |-> ip1, ip2 |-> ip2,
     num |-> num, text |-> text]

NicknameFilteringConfig_process_line(self, line) ==
    IF line.command = "" THEN Ok(self)
    ELSE IF line.command = "allow"
    THEN IF line.argc = 0 THEN Err(self)
         ELSE Ok([self EXCEPT !.allowed = @ \cup {line.text}])
    ELSE IF line.command = "ban"
    THEN IF line.argc = 0 \/ regex_new(line.num) = None THEN Err(self)
         ELSE Ok([self EXCEPT !.banned = Append(@, regex_new(line.num)[1])])
    ELSE IF line.command = "max-length"
    THEN IF line.argc = 0 \/ parse_u8(line.num) = None THEN Err(self)
         ELSE set_max_len(self, parse_u8(line.num)[1])
    ELSE IF line.command = "min-length"
    THEN IF line.argc = 0 \/ parse_u8(line.num) = None THEN Err(self)
         ELSE set_min_len(self, parse_u8(line.num)[1])
    ELSE Err(self)

MessageFilteringConfig_process_line(self, line) ==
    IF line.command = "" THEN Ok(self)
    ELSE IF line.command = "ban"
    THEN IF line.argc = 0 \/ regex_new(line.num) = None THEN Err(self)
         ELSE Ok([self EXCEPT !.banned = Append(@, regex_new(line.num)[1])])
    ELSE IF line.command = "max-length"
    THEN IF line.argc = 0 \/ parse_u16(line.num) = None THEN Err(self)
         ELSE MessageFilteringConfig_set_max_len(self, parse_u16(line.num)[1])
    ELSE IF line.command = "min-length"
    THEN IF line.argc = 0 \/ parse_u16(line.num) = None THEN Err(self)
         ELSE MessageFilteringConfig_set_min_len(self, parse_u16(line.num)[1])
    ELSE Err(self)

\* The loop over the lines without rollback: it stops at the first error and
\* keeps what the earlier lines did.
RECURSIVE NicknameFilteringConfig_process_lines(_, _)
NicknameFilteringConfig_process_lines(self, lines) ==
    IF lines = <<>> THEN Ok(self)
    ELSE LET result == NicknameFilteringConfig_process_line(self, Head(lines))
         IN  IF result.ok
             THEN NicknameFilteringConfig_process_lines(result.config, Tail(lines))
             ELSE result

NicknameFilteringConfig_process_string(self, lines, rollback_on_error) ==
    IF rollback_on_error
    THEN LET temp == NicknameFilteringConfig_process_lines(NicknameFilteringConfig_new,
                                                           lines)
         IN  IF temp.ok THEN Ok(NicknameFilteringConfig_append(self, temp.config))
             ELSE Err(self)
    ELSE NicknameFilteringConfig_process_lines(self, lines)

\* lib.rs Config
Config_new ==
    [ip_filtering |-> IpFilteringConfig_new,
     nickname_filtering |-> NicknameFilteringConfig_new,
     listen_sock_addrs |-> {},
     message_max_len |-> NonZeroU16Max,
     message_min_len |-> ConfigMessageMinLen]

\* An append that keeps self's message length bounds.
Config_append_keeps_scalars(self, other) ==
    [ip_filtering |-> IpFilteringConfig_append(self.ip_filtering, other.ip_filtering),
     nickname_filtering |-> NicknameFilteringConfig_append(self.nickname_filtering,
                                                           other.nickname_filtering),
     listen_sock_addrs |-> self.listen_sock_addrs \cup other.listen_sock_addrs,
     message_max_len |-> self.message_max_len,
     message_min_len |-> self.message_min_len]

Config_append(self, other) ==
    [ip_filtering |-> IpFilteringConfig_append(self.ip_filtering, other.ip_filtering),
     nickname_filtering |-> NicknameFilteringConfig_append(self.nickname_filtering,
                                                           other.nickname_filtering),
     listen_sock_addrs |-> self.listen_sock_addrs \cup other.listen_sock_addrs,
     message_max_len |-> other.message_max_len,
     message_min_len |-> other.message_min_len]

Config_process_line(self, line) ==
    IF line.option = "" \/ line.option = "#" THEN Ok(self)
    ELSE IF line.option = "ip-allow"
    THEN IF line.argc # 1 \/ parse_ip(line.ip1) = None THEN Err(self)
         ELSE Ok([self EXCEPT !.ip_filtering =
                      IpFilteringConfig_allow(@, parse_ip(line.ip1)[1])])
    ELSE IF line.option = "ip-ban"
    THEN IF line.argc # 1 \/ parse_ip(line.ip1) = None THEN Err(self)
         ELSE Ok([self EXCEPT !.ip_filtering =
                      IpFilteringConfig_ban(@, parse_ip(line.ip1)[1])])
    ELSE IF line.option = "ip-ban-range"
    THEN IF line.argc # 2 \/ parse_ip(line.ip1) = None \/ parse_ip(line.ip2) = None
         THEN Err(self)
         ELSE LET result == IpFilteringConfig_ban_range(self.ip_filtering,
                                parse_ip(line.ip1)[1], parse_ip(line.ip2)[1])
              IN  IF result.ok THEN Ok([self EXCEPT !.ip_filtering = result.config])
                  ELSE Err(self)
    ELSE IF line.option = "nickname"
    THEN IF line.command = "" THEN Err(self)
         ELSE LET result == NicknameFilteringConfig_process_line(self.nickname_filtering,
                                                                 line)
              IN  IF result.ok THEN Ok([self EXCEPT !.nickname_filtering = result.config])
                  ELSE Err(self)
    ELSE IF line.option = "listen"
    THEN IF line.argc # 1 \/ parse_ip(line.ip1) = None THEN Err(self)
         ELSE Ok([self EXCEPT !.listen_sock_addrs = @ \cup {parse_ip(line.ip1)[1]}])
    ELSE IF line.option = "message-length-max"
    THEN IF line.argc # 1 \/ parse_u16(line.num) = None THEN Err(self)
         ELSE Ok([self EXCEPT !.message_max_len = parse_u16(line.num)[1]])
    ELSE Err(self)

\* The loop of process_file without rollback.
RECURSIVE Config_process_lines(_, _)
Config_process_lines(self, lines) ==
    IF lines = <<>> THEN Ok(self)
    ELSE LET result == Config_process_line(self, Head(lines))
         IN  IF result.ok THEN Config_process_lines(result.config, Tail(lines))
             ELSE result

\* A process_file whose rollback branch works on self like the other branch.
Config_process_file_in_place(self, readable, lines, rollback_on_error) ==
    IF ~readable THEN Err(self)
    ELSE Config_process_lines(self, lines)

\* Config::process_file on a file with the given lines; readable is whether
\* the file can be opened and read.
Config_process_file(self, readable, lines, rollback_on_error) ==
    IF rollback_on_error
    THEN LET temp == IF readable THEN Config_process_lines(Config_new, lines)
                     ELSE Err(Config_new)
         IN  IF temp.ok THEN Ok(Config_append(self, temp.config)) ELSE Err(self)
    ELSE IF ~readable THEN Err(self)
    ELSE Config_process_lines(self, lines)

NoConfCall == [op |-> "none", ok |-> FALSE, rollback |-> FALSE, readable |-> TRUE,
               lines |-> <<>>, other |-> Config_new]

\* The threads of the lock model: one client thread, the message handler and
\* one listener.
Threads == {"client", "handler", "listener"}

NoLenCall == [which |-> "none", op |-> "none", command |-> "", num |-> 0, ok |-> TRUE]

NoReq == [nick |-> <<>>, password |-> ""]
NoMsg == [sender |-> <<>>, text |-> <<>>, stamp |-> 0, from |-> 0]
NoCall == [op |-> "none", nick |-> <<>>, id |-> 0, before |-> None, found |-> FALSE,
           ok |-> FALSE, err |-> FALSE]

\* Everything but the user list and the message log right after start-up: no
\* connection, nothing queued, the handler idle.
NoConnections ==
    /\ MESSAGE_QUEUE = <<>>
    /\ CLIENT_LIST = {}
    /\ poisoned = FALSE
    /\ crashed = FALSE
    /\ pc = [s \in Sessions |-> "unborn"]
    /\ addr = [s \in Sessions |-> 0]
    /\ stream = [s \in Sessions |-> "none"]
    /\ nickname = [s \in Sessions |-> None]
    /\ req = [s \in Sessions |-> NoReq]
    /\ cursor = [s \in Sessions |-> 0]
    /\ out = [s \in Sessions |-> <<>>]
    /\ auth = [s \in Sessions |-> "none"]
    /\ k0 = [s \in Sessions |-> None]
    /\ lpc = "accept"
    /\ lsess = 0
    /\ replaced = FALSE
    /\ wpc = "pop"
    /\ wmsg = NoMsg
    /\ wid = 0
    /\ wtodo = {}
    /\ logins = [s \in Sessions |-> 0]
    /\ call = NoCall
    /\ conf = Config_new
    /\ confcall = NoConfCall
    /\ confops = 0
    /\ wire = <<>>
    /\ closed = FALSE
    /\ rpos = 0
    /\ rpc = "header"
    /\ rlen = 0
    /\ rresult = "none"
    /\ slock = FALSE
    /\ spc = "idle"
    /\ scmd = "none"
    /\ ipc = "idle"
    /\ peer = <<>>
    /\ sstream = "open"
    /\ nsend = [client |-> 0, handler |-> 0]
    /\ held = [t \in Threads |-> {}]
    /\ prog = [t \in Threads |-> <<>>]
    /\ ncalls = [t \in Threads |-> 0]
    /\ lenconf = [nickname |-> NicknameFilteringConfig_new,
                  message |-> MessageFilteringConfig_new]
    /\ lencall = NoLenCall
    /\ lenops = 0

Init ==
    /\ USER_LIST = <<>>
    /\ LAST_ID = 0
    /\ MESSAGE_LIST = <<>>
    /\ sent = 0
    /\ NoConnections

\* --------------------------------------------------------- user_list.rs
\* An exists that finds no user.
exists_never(nick) == FALSE

exists(nick) == nick \in DOMAIN USER_LIST

\* A verify_password that accepts any candidate for a registered user.
verify_password_any(nick, candidate) == nick \in DOMAIN USER_LIST

verify_password(nick, candidate) ==
    /\ nick \in DOMAIN USER_LIST
    /\ USER_LIST[nick].hash = encrypt_password(candidate)

\* user_list::verify_password as it is declared: io::Result<bool>, which is
\* Err(NotFound) for a nickname that is not in the list.
verify_password_result(nick, candidate) ==
    IF nick \in DOMAIN USER_LIST
    THEN [is_err |-> FALSE, value |-> USER_LIST[nick].hash = encrypt_password(candidate)]
    ELSE [is_err |-> TRUE, value |-> FALSE]

get_last_sent_msg_id(nick) == USER_LIST[nick].last

\* BTreeMap::insert on a map kept as a function.
MapInsert(map, key, value) ==
    [k \in DOMAIN map \cup {key} |-> IF k = key THEN value ELSE map[k]]

\* set_last_sent_msg_id: the directory after the call and whether it returned Ok.
set_last_sent_msg_id(users, nick, id) ==
    IF nick \in DOMAIN users
    THEN [users |-> [users EXCEPT ![nick].last = Some(id)], ok |-> TRUE]
    ELSE [users |-> users, ok |-> FALSE]

\* add_user, its checks: the error it returns, or "Ok" to go on to insert.
add_user_check(users, nick) ==
    IF ~is_valid_nickname(nick) THEN "InvalidInput"
    ELSE IF nick \in DOMAIN users THEN "AlreadyExists"
    ELSE "Ok"

\* add_user after its checks: insert a fresh UserInfo.
insert_user(users, nick, password) ==
    MapInsert(users, nick, [hash |-> encrypt_password(password), last |-> None])

\* --------------------------------------------------------- client.rs
\* MdswpStream::is_err
is_err(st) == st \in {"reset", "broken"}

\* Client::send_command succeeds exactly on an open stream.
send_ok(s) == stream[s] = "open"

\* The frames on s's stream after send_command(frame).
sent_frames(s, frame) == IF send_ok(s) THEN Append(out[s], frame) ELSE out[s]

\* Where client_thread goes after a handler returned with the stream in
\* state st: the loop condition `while !self.is_err()`.
after_handler(st) == IF is_err(st) THEN "remove" ELSE "recv"

\* Client::error: best-effort Error frame, finish_write, reset.
ClientError(s, description) ==
    /\ out' = [out EXCEPT ![s] = sent_frames(s, ErrorFrame(description))]
    /\ stream' = [stream EXCEPT ![s] = "reset"]


\* A client thread is blocked in recv_command and a whole frame arrives.  A
\* frame the peer wrote before it vanished can still be read.
CanRecv(s) == ~crashed /\ pc[s] = "recv" /\ stream[s] \in {"open", "broken"}

\* Client::login up to the nickname update: verify_password, error on a
\* mismatch (the function goes on), LoginSuccess, error and return when that
\* send fails, then bind the nickname.
LoginVerify(s, nick, password) ==
    LET ok == verify_password(nick, password)
        st1 == IF ok THEN stream[s] ELSE "reset"
        out1 == IF ok THEN out[s] ELSE sent_frames(s, ErrorFrame(InvalidPasswordText))
        sendOk == st1 = "open"
    IN  IF sendOk
        THEN /\ out' = [out EXCEPT ![s] = Append(out1, LoginSuccessFrame)]
             /\ stream' = stream
             /\ nickname' = [nickname EXCEPT ![s] = Some(nick)]
             /\ auth' = [auth EXCEPT ![s] = "login"]
             /\ k0' = [k0 EXCEPT ![s] = get_last_sent_msg_id(nick)]
             /\ pc' = [pc EXCEPT ![s] = "getlast"]
        ELSE /\ out' = [out EXCEPT ![s] = out1]
             /\ stream' = [stream EXCEPT ![s] = "reset"]
             /\ pc' = [pc EXCEPT ![s] = "remove"]
             /\ UNCHANGED <<nickname, auth, k0>>

\* Client::on_login: nickname policy, exists, then the four-way match.
OnLogin(s, is_registering, nick, password) ==
    /\ CanRecv(s)
    /\ logins' = [logins EXCEPT ![s] = logins[s] + 1]
    /\ IF ~is_allowed_nickname(nick)
          \/ (is_registering /\ exists(nick))
          \/ (~is_registering /\ ~exists(nick))
       THEN /\ ClientError(s, IF ~is_allowed_nickname(nick) THEN NotAllowedText
                              ELSE IF is_registering THEN AlreadyExistsText
                              ELSE NotExistingText)
            /\ pc' = [pc EXCEPT ![s] = "remove"]
            /\ UNCHANGED <<nickname, auth, k0, req>>
       ELSE IF is_registering
       THEN /\ pc' = [pc EXCEPT ![s] = "add_user"]
            /\ req' = [req EXCEPT ![s] = [nick |-> nick, password |-> password]]
            /\ UNCHANGED <<nickname, auth, k0, out, stream>>
       ELSE /\ LoginVerify(s, nick, password)
            /\ UNCHANGED req
    /\ UNCHANGED <<userVars, logVars, MESSAGE_QUEUE, regVars, crashed, addr, cursor,
                   listenerVars, workerVars, sent>>

\* Client::register, the rest of it once add_user returned (its Result is
\* dropped): bind the nickname, log, return to the loop.
RegisterBind(s) ==
    /\ nickname' = [nickname EXCEPT ![s] = Some(req[s].nick)]
    /\ auth' = [auth EXCEPT ![s] = "register"]
    /\ req' = [req EXCEPT ![s] = NoReq]
    /\ pc' = [pc EXCEPT ![s] = after_handler(stream[s])]

\* user_list::add_user, its two checks.  A failing check returns Err to
\* register, which goes on.
AddUserCheck(s) ==
    /\ ~crashed /\ pc[s] = "add_user"
    /\ IF add_user_check(USER_LIST, req[s].nick) # "Ok"
       THEN RegisterBind(s)
       ELSE /\ pc' = [pc EXCEPT ![s] = "add_insert"]
            /\ UNCHANGED <<nickname, auth, req>>
    /\ UNCHANGED <<userVars, logVars, MESSAGE_QUEUE, regVars, crashed, addr, stream,
                   cursor, out, k0, listenerVars, workerVars, sent, logins>>

\* user_list::add_user, the insertion under the write lock, then register's
\* nickname update.
AddUserInsert(s) ==
    /\ ~crashed /\ pc[s] = "add_insert"
    /\ USER_LIST' = insert_user(USER_LIST, req[s].nick, req[s].password)
    /\ UNCHANGED <<call, directVars>>
    /\ RegisterBind(s)
    /\ UNCHANGED <<logVars, MESSAGE_QUEUE, regVars, crashed, addr, stream,
                   cursor, out, k0, listenerVars, workerVars, sent, logins>>

\* Client::login: get_last_sent_msg_id; None ends the login, Some(id) enters
\* for_messages_newer_than, which takes MESSAGE_LIST's read lock.
LoginGetLast(s) ==
    /\ ~crashed /\ pc[s] = "getlast"
    /\ LET last == get_last_sent_msg_id(nickname[s][1])
       IN  IF last = None
           THEN /\ pc' = [pc EXCEPT ![s] = after_handler(stream[s])]
                /\ UNCHANGED cursor
           ELSE /\ pc' = [pc EXCEPT ![s] = "replay"]
                /\ cursor' = [cursor EXCEPT ![s] = last[1]]
    /\ UNCHANGED <<userVars, logVars, MESSAGE_QUEUE, regVars, crashed, addr, stream,
                   nickname, req, out, auth, k0, listenerVars, workerVars, sent, logins>>

\* message_list::for_messages_newer_than: the ids the iteration still visits.
messages_newer_than(message_id) == {id \in DOMAIN MESSAGE_LIST : id > message_id}

\* One callback of the replay: send_command(MessageRecv), error on failure
\* (the iteration goes on); past the last message the lock is released and the
\* handler returns.
LoginReplay(s) ==
    /\ ~crashed /\ pc[s] = "replay"
    /\ LET todo == messages_newer_than(cursor[s])
       IN  IF todo = {}
           THEN /\ pc' = [pc EXCEPT ![s] = after_handler(stream[s])]
                /\ UNCHANGED <<cursor, out, stream>>
           ELSE LET id == Min(todo)
                    st1 == IF send_ok(s) THEN stream[s] ELSE "reset"
                IN  /\ out' = [out EXCEPT ![s] =
                                 sent_frames(s, MessageRecvFrame(id, "replay", nickname[s]))]
                    /\ stream' = [stream EXCEPT ![s] = st1]
                    /\ cursor' = [cursor EXCEPT ![s] = id]
                    /\ pc' = [pc EXCEPT ![s] =
                                IF messages_newer_than(id) = {} THEN after_handler(st1)
                                ELSE "replay"]
    /\ UNCHANGED <<userVars, logVars, MESSAGE_QUEUE, regVars, crashed, addr,
                   nickname, req, auth, k0, listenerVars, workerVars, sent, logins>>

\* An on_message that enqueues without looking at the nickname.
OnMessageUnchecked(s, text) ==
    /\ CanRecv(s)
    /\ sent < MaxMsgs
    /\ sent' = sent + 1
    /\ MESSAGE_QUEUE' = <<[sender |-> IF nickname[s] = None THEN <<>> ELSE nickname[s][1],
                            text |-> text, stamp |-> sent + 1, from |-> s]>>
                          \o MESSAGE_QUEUE
    /\ pc' = [pc EXCEPT ![s] = after_handler(stream[s])]
    /\ UNCHANGED <<out, stream, userVars, logVars, regVars, crashed, addr, nickname, req,
                   cursor, auth, k0, listenerVars, workerVars, logins>>

\* Client::on_message: enqueue the text as received for a logged-in client
\* (message_queue::push is push_front), error otherwise.
OnMessage(s, text) ==
    /\ CanRecv(s)
    /\ IF nickname[s] # None
       THEN /\ sent < MaxMsgs
            /\ sent' = sent + 1
            /\ MESSAGE_QUEUE' = <<[sender |-> nickname[s][1], text |-> text,
                                    stamp |-> sent + 1, from |-> s]>> \o MESSAGE_QUEUE
            /\ pc' = [pc EXCEPT ![s] = after_handler(stream[s])]
            /\ UNCHANGED <<out, stream>>
       ELSE /\ ClientError(s, NotLoggedInText)
            /\ pc' = [pc EXCEPT ![s] = "remove"]
            /\ UNCHANGED <<sent, MESSAGE_QUEUE>>
    /\ UNCHANGED <<userVars, logVars, regVars, crashed, addr, nickname, req, cursor,
                   auth, k0, listenerVars, workerVars, logins>>

\* client_thread: recv_command returned Ok(None): finish_write and return.
RecvEof(s) ==
    /\ ~crashed /\ pc[s] = "recv" /\ stream[s] = "open"
    /\ stream' = [stream EXCEPT ![s] = "finished"]
    /\ pc' = [pc EXCEPT ![s] = "done"]
    /\ UNCHANGED <<userVars, logVars, MESSAGE_QUEUE, regVars, crashed, addr, nickname,
                   req, cursor, out, auth, k0, listenerVars, workerVars, sent, logins>>

\* client_thread: recv_command returned Err (a frame that does not decode, a
\* short read, a stream that failed): error and return.
RecvErr(s) ==
    /\ ~crashed /\ pc[s] = "recv" /\ stream[s] \in {"open", "broken", "reset"}
    /\ ClientError(s, IoErrorText)
    /\ pc' = [pc EXCEPT ![s] = "done"]
    /\ UNCHANGED <<userVars, logVars, MESSAGE_QUEUE, regVars, crashed, addr, nickname,
                   req, cursor, auth, k0, listenerVars, workerVars, sent, logins>>

\* The peer vanishes: every later write to the stream fails.
PeerBreak(s) ==
    /\ ~crashed /\ stream[s] = "open"
    /\ stream' = [stream EXCEPT ![s] = "broken"]
    /\ UNCHANGED <<userVars, logVars, MESSAGE_QUEUE, regVars, crashed, pc, addr, nickname,
                   req, cursor, out, auth, k0, listenerVars, workerVars, sent, logins>>

\* --------------------------------------------------------- client_list.rs
\* BTreeMap::insert on CLIENT_LIST: an entry with the same key is replaced.
registry_insert(list, peer_addr, s) ==
    {e \in list : e.addr # peer_addr} \cup {[addr |-> peer_addr, sess |-> s]}

registry_remove(list, peer_addr) == {e \in list : e.addr # peer_addr}

registry_has(list, peer_addr) == \E e \in list : e.addr = peer_addr

\* add_connection without its assertion: a duplicate is replaced silently.
add_connection_never_panics(previous_is_some) == FALSE

\* add_connection: assert!(previous_value.is_none()).
add_connection_panics(previous_is_some) == previous_is_some

\* for_each holds CLIENT_LIST's read lock for the whole iteration.
RegistryReadLocked == wpc = "fanout"

\* client_thread after the loop: client_list::remove_connection.  On a poisoned
\* lock write().unwrap() panics; on an absent key expect() panics while the
\* write guard is held, which poisons the lock.
RemoveConnection(s) ==
    /\ ~crashed /\ pc[s] = "remove" /\ ~RegistryReadLocked
    /\ pc' = [pc EXCEPT ![s] = "done"]
    /\ IF poisoned THEN UNCHANGED regVars
       ELSE IF registry_has(CLIENT_LIST, addr[s])
       THEN /\ CLIENT_LIST' = registry_remove(CLIENT_LIST, addr[s])
            /\ UNCHANGED <<poisoned, replaced>>
       ELSE /\ poisoned' = TRUE
            /\ UNCHANGED <<CLIENT_LIST, replaced>>
    /\ UNCHANGED <<userVars, logVars, MESSAGE_QUEUE, crashed, addr, stream, nickname,
                   req, cursor, out, auth, k0, listenerVars, workerVars, sent, logins>>

\* --------------------------------------------------------- listener.rs
\* A peer address can connect again only when its earlier connection is over.
AddrFree(a) == \A t \in Sessions : addr[t] = a => stream[t] # "open"

\* listen / __handle_conn, first half: the client thread is spawned.
Accept(s, a) ==
    /\ ~crashed /\ lpc = "accept"
    /\ pc[s] = "unborn" /\ \A t \in Sessions : t < s => pc[t] # "unborn"
    /\ AddrFree(a)
    /\ pc' = [pc EXCEPT ![s] = "recv"]
    /\ addr' = [addr EXCEPT ![s] = a]
    /\ stream' = [stream EXCEPT ![s] = "open"]
    /\ lpc' = "add"
    /\ lsess' = s
    /\ UNCHANGED <<userVars, logVars, MESSAGE_QUEUE, regVars, crashed, nickname,
                   req, cursor, out, auth, k0, workerVars, sent, logins>>

\* listen: incoming() yields Err; the arm is todo!(), a panic that ends the
\* listener thread (it holds no lock).
AcceptError ==
    /\ ~crashed /\ lpc = "accept"
    /\ lpc' = "dead"
    /\ UNCHANGED <<lsess, userVars, logVars, MESSAGE_QUEUE, regVars, crashed, pc, addr,
                   stream, nickname, req, cursor, out, auth, k0, workerVars, sent, logins>>

\* __handle_conn, second half: client_list::add_connection.
AddConnection ==
    /\ ~crashed /\ lpc = "add" /\ ~RegistryReadLocked
    /\ lsess' = 0
    /\ IF poisoned
       THEN /\ lpc' = "dead"
            /\ UNCHANGED regVars
       ELSE LET previous == registry_has(CLIENT_LIST, addr[lsess])
            IN  /\ CLIENT_LIST' = registry_insert(CLIENT_LIST, addr[lsess], lsess)
                /\ replaced' = (replaced \/ previous)
                /\ poisoned' = add_connection_panics(previous)
                /\ lpc' = IF add_connection_panics(previous) THEN "dead" ELSE "accept"
    /\ UNCHANGED <<userVars, logVars, MESSAGE_QUEUE, crashed, pc, addr, stream, nickname,
                   req, cursor, out, auth, k0, workerVars, sent, logins>>

\* --------------------------------------------------------- message_list.rs
\* A slip in incr_and_get_id: the counter advances by two.
next_id_skips(last_id) == last_id + 2

\* incr_and_get_id: the id after last_id.
next_id(last_id) == last_id + 1

\* No client thread is inside for_messages_newer_than (MESSAGE_LIST's read lock).
MessageListReadFree == \A s \in Sessions : pc[s] # "replay"

\* --------------------------------------------------------- message_queue.rs
\* pop: LinkedList::pop_back on a non-empty queue.
pop(queue) ==
    [message |-> queue[Len(queue)], rest |-> SubSeq(queue, 1, Len(queue) - 1)]

\* handle_incoming: pop() takes the back of the queue.
WorkerPop ==
    /\ ~crashed /\ wpc = "pop" /\ MESSAGE_QUEUE # <<>>
    /\ wmsg' = pop(MESSAGE_QUEUE).message
    /\ MESSAGE_QUEUE' = pop(MESSAGE_QUEUE).rest
    /\ wpc' = "alloc"
    /\ UNCHANGED <<userVars, logVars, regVars, crashed, pc, addr, stream, nickname, req,
                   cursor, out, auth, k0, listenerVars, wid, wtodo, sent, logins>>

\* message_list::push, first half: incr_and_get_id under LAST_ID's lock.
WorkerAllocId ==
    /\ ~crashed /\ wpc = "alloc"
    /\ LAST_ID' = next_id(LAST_ID)
    /\ wid' = next_id(LAST_ID)
    /\ wpc' = "insert"
    /\ UNCHANGED <<userVars, MESSAGE_LIST, MESSAGE_QUEUE, regVars, crashed, pc, addr, stream,
                   nickname, req, cursor, out, auth, k0, listenerVars, wmsg, wtodo, sent, logins>>

\* message_list::push, second half: the insertion under MESSAGE_LIST's write
\* lock; then handle_msg enters client_list::for_each, whose read().unwrap()
\* panics on a poisoned lock.
WorkerInsert ==
    /\ ~crashed /\ wpc = "insert" /\ MessageListReadFree
    /\ MESSAGE_LIST' = MapInsert(MESSAGE_LIST, wid, wmsg)
    /\ IF poisoned
       THEN /\ crashed' = TRUE
            /\ wpc' = "dead"
            /\ UNCHANGED wtodo
       ELSE /\ wtodo' = {e.addr : e \in CLIENT_LIST}
            /\ wpc' = IF CLIENT_LIST = {} THEN "pop" ELSE "fanout"
            /\ UNCHANGED crashed
    /\ UNCHANGED <<userVars, LAST_ID, MESSAGE_QUEUE, regVars, pc, addr, stream, nickname,
                   req, cursor, out, auth, k0, listenerVars, wmsg, wid, sent, logins>>

\* for_each: the iteration goes on while entries are left, then the read lock
\* is released and handle_msg returns to handle_incoming's loop.
for_each_next(rest) == IF rest = {} THEN "pop" ELSE "fanout"

\* client::handle_err for a failed send: the session's error handling; it
\* returns Ok, so the unwrap on its result does not panic.
handle_err(s) == ClientError(s, IoErrorText)

\* handle_msg, the closure of for_each for the next entry in key order: send
\* the message; on Ok set_last_sent_msg_id(info.nickname.unwrap(), msg_id).unwrap(),
\* which panics for a client without nickname and for an unknown user; on Err
\* the client's error handling.
WorkerSend ==
    /\ ~crashed /\ wpc = "fanout"
    /\ LET a == Min(wtodo)
           s == (CHOOSE e \in CLIENT_LIST : e.addr = a).sess
           rest == wtodo \ {a}
       IN  /\ wtodo' = rest
           /\ IF send_ok(s)
              THEN /\ out' = [out EXCEPT ![s] =
                                Append(out[s], MessageRecvFrame(wid, "broadcast", nickname[s]))]
                   /\ UNCHANGED stream
                   /\ IF nickname[s] = None
                         \/ ~set_last_sent_msg_id(USER_LIST, nickname[s][1], wid).ok
                      THEN /\ crashed' = TRUE
                           /\ wpc' = "dead"
                           /\ UNCHANGED USER_LIST
                      ELSE /\ USER_LIST' =
                                set_last_sent_msg_id(USER_LIST, nickname[s][1], wid).users
                           /\ wpc' = for_each_next(rest)
                           /\ UNCHANGED crashed
              ELSE /\ handle_err(s)
                   /\ wpc' = for_each_next(rest)
                   /\ UNCHANGED <<USER_LIST, crashed>>
    /\ UNCHANGED <<call, directVars, logVars, MESSAGE_QUEUE, regVars, pc, addr, nickname, req, cursor,
                   auth, k0, listenerVars, wmsg, wid, sent, logins>>

\* ------------------------------------------------------------ specification
\* The steps of one client thread that reads at most max_logins Login commands.
SessionStepWith(s, max_logins, texts) ==
    \/ /\ logins[s] < max_logins
       /\ \E r \in BOOLEAN, n \in Nicks, p \in Passwords : OnLogin(s, r, n, p)
    \/ AddUserCheck(s)
    \/ AddUserInsert(s)
    \/ LoginGetLast(s)
    \/ LoginReplay(s)
    \/ \E text \in texts : OnMessage(s, text)
    \/ RecvEof(s)
    \/ RecvErr(s)
    \/ PeerBreak(s)
    \/ RemoveConnection(s)

SessionStepUpTo(s, max_logins) == SessionStepWith(s, max_logins, {Hello})

SessionStep(s) == SessionStepUpTo(s, MaxLogins)

Next ==
    \/ \E s \in Sessions, a \in Addrs : Accept(s, a)
    \/ AddConnection
    \/ \E s \in Sessions : SessionStep(s)
    \/ WorkerPop
    \/ WorkerAllocId
    \/ WorkerInsert
    \/ WorkerSend

Spec == Init /\ [][Next]_vars

\* ------------------------------------------------ one connection on its own
\* The server with a single connection, which may send several Login commands.
NextRelogin ==
    \/ \E a \in Addrs : Accept(1, a)
    \/ AddConnection
    \/ SessionStepWith(1, MaxRelogins, Texts)
    \/ WorkerPop
    \/ WorkerAllocId
    \/ WorkerInsert
    \/ WorkerSend

SpecRelogin == Init /\ [][NextRelogin]_vars

\* ------------------------------------------------ one connection and a backlog
\* The server after earlier connections have come and gone: user "a" and user
\* "b" are registered, "b" has sent MaxBacklog messages which are all logged,
\* and "a" has been delivered some of them or none.  One connection follows.
MaxBacklog == 3

BacklogUsers(last) ==
    (<<97>> :> [hash |-> encrypt_password("pw"), last |-> last])
    @@ (<<98>> :> [hash |-> encrypt_password("pw"), last |-> Some(MaxBacklog)])

BacklogLog ==
    [id \in 1..MaxBacklog |-> [sender |-> <<98>>, text |-> Hello, stamp |-> id, from |-> 0]]

InitBacklog ==
    /\ \E last \in {None} \cup {Some(id) : id \in 1..MaxBacklog} :
          USER_LIST = BacklogUsers(last)
    /\ LAST_ID = MaxBacklog
    /\ MESSAGE_LIST = BacklogLog
    /\ sent = MaxBacklog
    /\ NoConnections

\* add_user's insertion and the message handler have nothing to do here: both
\* valid nicknames are taken and no message is accepted beyond the backlog.
NextBacklog ==
    \/ \E a \in Addrs : Accept(1, a)
    \/ AddConnection
    \/ /\ logins[1] < MaxRelogins
       /\ \E r \in BOOLEAN, n \in Nicks, p \in Passwords : OnLogin(1, r, n, p)
    \/ AddUserCheck(1)
    \/ LoginGetLast(1)
    \/ LoginReplay(1)
    \/ OnMessage(1, Hello)
    \/ RecvEof(1)
    \/ RecvErr(1)
    \/ PeerBreak(1)
    \/ RemoveConnection(1)

SpecBacklog == InitBacklog /\ [][NextBacklog]_vars

\* ------------------------------------------- one listener with failing accepts
\* The same server when incoming connections can also fail.
NextListener ==
    \/ NextRelogin
    \/ AcceptError

SpecListener == Init /\ [][NextListener]_vars

\* ------------------------------------------- the user directory on its own
\* Direct calls of the user_list functions with arbitrary arguments.
DirFrame == <<directVars, logVars, MESSAGE_QUEUE, regVars, crashed, pc, addr, stream, nickname, req,
              cursor, out, auth, k0, listenerVars, workerVars, sent, logins>>

DirAddUser(nick, password) ==
    LET result == add_user_check(USER_LIST, nick)
    IN  /\ USER_LIST' = IF result = "Ok" THEN insert_user(USER_LIST, nick, password)
                        ELSE USER_LIST
        /\ call' = [op |-> "add_user", nick |-> nick, id |-> 0, before |-> None,
                    found |-> (nick \in DOMAIN USER_LIST), ok |-> (result = "Ok"),
                    err |-> (result # "Ok")]
        /\ UNCHANGED DirFrame

DirSetLast(nick, id) ==
    LET result == set_last_sent_msg_id(USER_LIST, nick, id)
    IN  /\ USER_LIST' = result.users
        /\ call' = [op |-> "set_last_sent_msg_id", nick |-> nick, id |-> id,
                    before |-> IF nick \in DOMAIN USER_LIST THEN USER_LIST[nick].last
                               ELSE None,
                    found |-> (nick \in DOMAIN USER_LIST), ok |-> result.ok,
                    err |-> ~result.ok]
        /\ UNCHANGED DirFrame

DirVerify(nick, password) ==
    /\ call' = [op |-> "verify_password", nick |-> nick, id |-> 0, before |-> None,
                found |-> (nick \in DOMAIN USER_LIST),
                ok |-> verify_password_result(nick, password).value,
                err |-> verify_password_result(nick, password).is_err]
    /\ UNCHANGED <<USER_LIST, DirFrame>>

NextDir ==
    \/ \E n \in Nicks, p \in Passwords : DirAddUser(n, p)
    \/ \E n \in Nicks, id \in 0..MaxDirId : DirSetLast(n, id)
    \/ \E n \in Nicks, p \in Passwords : DirVerify(n, p)

SpecDir == Init /\ [][NextDir]_vars

\* ------------------------------------------------------------------ claims
IsRecv(f) == f.kind = "MessageRecv"

\* C1: on every session the ids of the MessageRecv frames written to its
\* stream are strictly increasing, whatever the interleaving of the login's
\* backlog replay with the message handler's fan-out.
C1_RecvIdsStrictlyIncreasing ==
    \A s \in Sessions : \A i, j \in DOMAIN out[s] :
        (i < j /\ IsRecv(out[s][i]) /\ IsRecv(out[s][j])) => out[s][i].id < out[s][j].id

\* A MessageRecv with this id has been written to a session bound to nick.
DeliveredTo(nick, id) ==
    \E s \in Sessions : \E i \in DOMAIN out[s] :
        IsRecv(out[s][i]) /\ out[s][i].id = id /\ out[s][i].to = Some(nick)

\* The frame a step appended to s's stream, if it is a replayed MessageRecv.
ReplayedNow(s) ==
    /\ Len(out'[s]) = Len(out[s]) + 1
    /\ out'[s][Len(out'[s])].via = "replay"

\* C2: backlog replay never sends a user a message id that was already
\* written to one of that user's sessions, by a broadcast or by a replay.
C2_ReplayNeverResends ==
    [][\A s \in Sessions :
          ReplayedNow(s) =>
              ~DeliveredTo(out'[s][Len(out'[s])].to[1], out'[s][Len(out'[s])].id)]_vars

HasRecv(s, id) == \E i \in DOMAIN out[s] : IsRecv(out[s][i]) /\ out[s][i].id = id

\* C3: a session that logged in to a user whose cursor was k, has finished its
\* login and is still connected has received every logged message above k
\* once the message handler has finished fanning out.
C3_NoGapAfterLogin ==
    \A s \in Sessions :
        (/\ ~crashed /\ wpc = "pop"
         /\ auth[s] = "login" /\ k0[s] # None
         /\ pc[s] = "recv" /\ stream[s] = "open")
        => \A id \in DOMAIN MESSAGE_LIST : id > k0[s][1] => HasRecv(s, id)

\* C4: a broadcast MessageRecv is written only to an authenticated session
\* and never before a frame of that session's backlog replay.
C4_BroadcastOnlyAfterReplay ==
    \A s \in Sessions : \A i \in DOMAIN out[s] :
        out[s][i].via = "broadcast" =>
            /\ out[s][i].to # None
            /\ \A j \in DOMAIN out[s] :
                  (i < j /\ out[s][j].via = "replay") =>
                      \E m \in DOMAIN out[s] : i < m /\ m < j /\ out[s][m].kind = "LoginSuccess"

LogIds == DOMAIN MESSAGE_LIST

C6_LastDeliveredMonotone ==
    [][\A n \in DOMAIN USER_LIST :
          USER_LIST[n].last # None =>
              /\ n \in DOMAIN USER_LIST'
              /\ USER_LIST'[n].last # None
              /\ USER_LIST'[n].last[1] >= USER_LIST[n].last[1]]_vars

\* C7: set_last_sent_msg_id with an id that is not strictly greater than the
\* user's current value returns an error and leaves the value unchanged.
C7_SetLastRejectsNonGreater ==
    (/\ call.op = "set_last_sent_msg_id" /\ call.found
     /\ call.before # None /\ call.id <= call.before[1])
    => (~call.ok /\ USER_LIST[call.nick].last = call.before)

\* C8: CLIENT_LIST holds at most one entry per peer address, and an
\* add_connection that found the address present ended in the assertion's
\* panic: the listener thread is dead and the list's lock is poisoned.
C8_RegistryKeysUnique ==
    /\ \A e1, e2 \in CLIENT_LIST : e1.addr = e2.addr => e1 = e2
    /\ replaced => (poisoned /\ lpc = "dead")

C8_Witness == replaced

\* C9: a session with a bound nickname is bound to a registered user.
C9_AuthenticatedImpliesExists ==
    \A s \in Sessions : nickname[s] # None => exists(nickname[s][1])

\* C10: a session that registered a new user has been sent LoginSuccess, and
\* no MessageRecv precedes it.
C10_RegisterSendsLoginSuccess ==
    \A s \in Sessions :
        (auth[s] = "register" /\ exists(nickname[s][1])) =>
            \E i \in DOMAIN out[s] :
                /\ out[s][i].kind = "LoginSuccess"
                /\ \A j \in DOMAIN out[s] : IsRecv(out[s][j]) => i < j

\* A session whose login was refused: no nickname, and the client thread is
\* past its loop.
Refused(s) == nickname[s] = None /\ pc[s] \in {"remove", "done"}

\* The step is on_login for Login{register=false} naming a registered user
\* with a password whose hash differs from the stored one, on a healthy stream
\* of a session without nickname.
WrongPasswordLogin(s, nick, password) ==
    /\ OnLogin(s, FALSE, nick, password)
    /\ is_allowed_nickname(nick)
    /\ nick \in DOMAIN USER_LIST
    /\ USER_LIST[nick].hash # encrypt_password(password)
    /\ nickname[s] = None
    /\ stream[s] = "open"

\* What a wrong password does, for a given text of the Error frame.
WrongPasswordOutcome(text) ==
    /\ \A s \in Sessions, n \in Nicks, p \in Passwords :
          WrongPasswordLogin(s, n, p) =>
              /\ out'[s] = Append(out[s], ErrorFrame(text))
              /\ stream'[s] = "reset"
              /\ nickname'[s] = None
              /\ pc'[s] = "remove"
              /\ USER_LIST' = USER_LIST
    /\ \A s \in Sessions :
          Refused(s) => (out'[s] = out[s] /\ nickname'[s] = None)

\* C11 as stated: a wrong password is answered with one Error frame whose
\* description is "invalid password", the stream is reset, no LoginSuccess or
\* replayed MessageRecv follows, the nickname stays None and USER_LIST is
\* unchanged.
C11_WrongPasswordAsStated == [][WrongPasswordOutcome("invalid password")]_vars

\* C11 amended: the same, with the description the server writes,
\* "Invalid password".
C11_WrongPasswordRefused == [][WrongPasswordOutcome(InvalidPasswordText)]_vars

C11_Witness ==
    \E s \in Sessions :
        /\ Refused(s) /\ stream[s] = "reset" /\ out[s] # <<>>
        /\ out[s][Len(out[s])] = ErrorFrame(InvalidPasswordText)

\* The number of Error frames among the given frames.
RECURSIVE ErrorCount(_)
ErrorCount(frames) ==
    IF frames = <<>> THEN 0
    ELSE (IF Head(frames).kind = "Error" THEN 1 ELSE 0) + ErrorCount(Tail(frames))

\* The step is on_login, on a healthy stream of a session without nickname,
\* for a request whose is_registering flag equals the presence of the nickname in USER_LIST.
MismatchedLogin(s, is_registering, nick, password) ==
    /\ OnLogin(s, is_registering, nick, password)
    /\ is_registering = (nick \in DOMAIN USER_LIST)
    /\ nickname[s] = None
    /\ stream[s] = "open"

\* C12: registering an existing account, or logging in to an absent one, is
\* refused: the session's stream then carries exactly one Error frame, the
\* last one written, the stream is reset, the nickname stays None and
\* USER_LIST, password hashes included, is unchanged; nothing is written to
\* a refused session afterwards.
C12_MismatchedLoginRefused ==
    [][/\ \A s \in Sessions, r \in BOOLEAN, n \in Nicks, p \in Passwords :
             MismatchedLogin(s, r, n, p) =>
                 /\ Len(out'[s]) = Len(out[s]) + 1
                 /\ out'[s][Len(out'[s])].kind = "Error"
                 /\ ErrorCount(out'[s]) = 1
                 /\ stream'[s] = "reset"
                 /\ nickname'[s] = None
                 /\ USER_LIST' = USER_LIST
       /\ \A s \in Sessions :
             (Refused(s) /\ stream[s] = "reset") =>
                 (out'[s] = out[s] /\ nickname'[s] = None /\ stream'[s] = "reset")]_vars

C12_Witness ==
    \E s \in Sessions :
        /\ Refused(s) /\ stream[s] = "reset" /\ out[s] # <<>>
        /\ out[s][Len(out[s])] = ErrorFrame(AlreadyExistsText)
        /\ ErrorCount(out[s]) = 1

\* The nickname rule of the admission policy: the allow-list wins; else denied
\* when the length is outside [min_len, max_len] or a banned pattern matches.
nickname_allowed(nick) ==
    IF nick \in ConfigAllowedNicknames THEN TRUE
    ELSE IF Len(nick) < ConfigMinLen \/ Len(nick) > ConfigMaxLen THEN FALSE
    ELSE IF \E p \in ConfigBannedPatterns : is_match(p, nick) THEN FALSE
    ELSE TRUE

\* C13: a Login whose nickname fails the nickname rule creates no user and
\* binds no nickname: it never gets as far as add_user, every registered user
\* and every bound nickname satisfies the rule.
C13_PolicyBeforeLookup ==
    /\ \A n \in DOMAIN USER_LIST : nickname_allowed(n)
    /\ \A s \in Sessions :
          /\ nickname[s] # None => nickname_allowed(nickname[s][1])
          /\ pc[s] \in {"add_user", "add_insert"} => nickname_allowed(req[s].nick)

\* C14: a SendMessage read on a session without nickname enqueues nothing
\* (MESSAGE_QUEUE, MESSAGE_LIST and LAST_ID are unchanged); the session is
\* sent the Error frame, its stream is reset and its client thread leaves the
\* loop; nothing is written to it afterwards.
C14_MessageBeforeLoginRefused ==
    [][/\ \A s \in Sessions :
             ((\E text \in Texts : OnMessage(s, text)) /\ nickname[s] = None) =>
                 /\ MESSAGE_QUEUE' = MESSAGE_QUEUE
                 /\ MESSAGE_LIST' = MESSAGE_LIST /\ LAST_ID' = LAST_ID
                 /\ out'[s] = sent_frames(s, ErrorFrame(NotLoggedInText))
                 /\ stream'[s] = "reset"
                 /\ pc'[s] = "remove"
       /\ \A s \in Sessions :
             (Refused(s) /\ stream[s] = "reset") =>
                 (out'[s] = out[s] /\ stream'[s] = "reset" /\ pc'[s] \in {"remove", "done"})]_vars

C14_Witness ==
    \E s \in Sessions :
        /\ Refused(s) /\ stream[s] = "reset" /\ logins[s] = 0 /\ sent = 0
        /\ out[s] = <<ErrorFrame(NotLoggedInText)>>
        /\ MESSAGE_QUEUE = <<>> /\ MESSAGE_LIST = <<>>

\* C15: a session's nickname, once bound, is never changed, and a session
\* with a nickname never starts creating a user: a later Login on the session
\* changes nothing.
C15_NicknameNeverRebound ==
    [][\A s \in Sessions :
          nickname[s] # None =>
              /\ nickname'[s] = nickname[s]
              /\ pc'[s] # "add_user"]_vars

\* The stamps (order of acceptance) of the messages in the queue, in the
\* message handler's hands between pop and insertion, and in the log.
QueueStamps == {MESSAGE_QUEUE[i].stamp : i \in DOMAIN MESSAGE_QUEUE}
InHandStamps == IF wpc \in {"alloc", "insert"} THEN {wmsg.stamp} ELSE {}
LoggedStamps == {MESSAGE_LIST[id].stamp : id \in LogIds}

\* C16: the queue is FIFO and lossless: the k-th accepted message is logged
\* with id k (so an earlier message gets the smaller id and none is logged
\* twice); every accepted message is at any moment in exactly one place: in
\* the queue (newest at the front), in the handler's hands, or in the log; and
\* the message handler never stops for good while an accepted message is
\* still waiting to be logged.
C16_QueueFifoLossless ==
    /\ \A id \in LogIds : MESSAGE_LIST[id].stamp = id
    /\ \A i, j \in DOMAIN MESSAGE_QUEUE :
          i < j => MESSAGE_QUEUE[i].stamp > MESSAGE_QUEUE[j].stamp
    /\ QueueStamps \cup InHandStamps \cup LoggedStamps = 1..sent
    /\ QueueStamps \cap InHandStamps = {}
    /\ QueueStamps \cap LoggedStamps = {}
    /\ InHandStamps \cap LoggedStamps = {}
    /\ \A q \in QueueStamps : \A l \in InHandStamps \cup LoggedStamps : l < q
    /\ wpc = "dead" => LoggedStamps = 1..sent

\* The message handler is idle: nothing queued, nothing in its hands.
HandlerIdle == ~crashed /\ wpc = "pop" /\ MESSAGE_QUEUE = <<>>

\* C17: every accepted SendMessage is appended to MESSAGE_LIST and echoed to
\* its sender.  In the form a finite run refutes: the message handler never
\* dies with an accepted message still unlogged, and once the handler is idle
\* a sender that is still connected on a healthy stream has received a
\* MessageRecv for each of its logged messages.
C17_SenderGetsEcho ==
    /\ crashed => (MESSAGE_QUEUE = <<>> /\ InHandStamps = {})
    /\ \A id \in LogIds :
          LET s == MESSAGE_LIST[id].from
          IN  (HandlerIdle /\ pc[s] = "recv" /\ stream[s] = "open") => HasRecv(s, id)

\* The session of the registry entry the fan-out visits next.
FanoutTarget == (CHOOSE e \in CLIENT_LIST : e.addr = Min(wtodo)).sess

\* The step appended a broadcast MessageRecv to s's stream.
BroadcastNow(s) ==
    /\ Len(out'[s]) = Len(out[s]) + 1
    /\ out'[s][Len(out'[s])].via = "broadcast"

\* C18: when the fan-out comes to a registered session without nickname, no
\* MessageRecv is written to it and the message handler does not panic.
C18_FanoutSkipsAnonymous ==
    [][(~crashed /\ wpc = "fanout" /\ nickname[FanoutTarget] = None) =>
          (~BroadcastNow(FanoutTarget) /\ ~crashed' /\ wpc' # "dead")]_vars

\* The step is handle_msg's closure for the next entry, and its send fails.
FanoutSendFails == ~crashed /\ wpc = "fanout" /\ wtodo' # wtodo /\ ~send_ok(FanoutTarget)

\* A send of the fan-out failed for session s: its stream was reset while its
\* client thread still waits in recv_command.
FanoutSendFailed(s) ==
    /\ \E e \in CLIENT_LIST : e.sess = s
    /\ stream[s] = "reset" /\ pc[s] = "recv"

\* C19: when the send to one recipient fails during fan-out, the recipient's
\* stream is reset by its error handling, nobody's last_sent_msg_id changes,
\* and the iteration goes on with exactly the remaining entries (or, with none
\* left, returns to pop the next message); and the message handler does not
\* panic afterwards, on the remaining entries or on a later message.
C19_FanoutSurvivesSendFailure ==
    /\ [][FanoutSendFails =>
             /\ stream'[FanoutTarget] = "reset"
             /\ out'[FanoutTarget] = out[FanoutTarget]
             /\ USER_LIST' = USER_LIST
             /\ ~crashed'
             /\ wtodo' = wtodo \ {Min(wtodo)}
             /\ wpc' = (IF wtodo' = {} THEN "pop" ELSE "fanout")
             /\ wid' = wid /\ wmsg' = wmsg]_vars
    /\ []((\E s \in Sessions : FanoutSendFailed(s)) => wpc # "dead")

\* The step is handle_msg's closure for the next entry, a session with a
\* nickname.
FanoutVisitsBound ==
    ~crashed /\ wpc = "fanout" /\ wtodo' # wtodo /\ nickname[FanoutTarget] # None

\* C20: after the fan-out's send of message wid to a session bound to
\* nickname n succeeded, n's last_sent_msg_id is Some(wid); after it failed,
\* USER_LIST is as before.
C20_FanoutRecordsLastDelivered ==
    [][FanoutVisitsBound =>
          LET n == nickname[FanoutTarget][1]
          IN  IF send_ok(FanoutTarget)
              THEN /\ n \in DOMAIN USER_LIST'
                   /\ USER_LIST'[n].last = Some(wid)
              ELSE USER_LIST' = USER_LIST]_vars

\* CLIENT_LIST holds an entry for session s.
Registered(s) == \E e \in CLIENT_LIST : e.sess = s

\* C21: after the peer's orderly half-close the session has finished its write
\* direction, its client thread has ended, and once the listener is done
\* adding the connection CLIENT_LIST holds no entry for it.
C21_HalfCloseRemovesEntry ==
    \A s \in Sessions :
        (pc[s] = "done" /\ stream[s] = "finished" /\ lsess # s) => ~Registered(s)

\* C22: error on a session sends at most one Error frame, resets the stream,
\* and removes the session from CLIENT_LIST: a session that was sent an Error
\* frame has a reset stream, and a client thread that ended on a reset stream
\* has no entry left once the listener is done adding the connection.
C22_ErrorResetsAndRemoves ==
    \A s \in Sessions :
        /\ ErrorCount(out[s]) > 0 => (ErrorCount(out[s]) = 1 /\ stream[s] = "reset")
        /\ (pc[s] = "done" /\ stream[s] = "reset" /\ lsess # s) => ~Registered(s)

\* ------------------------------------------------------------ message policy
\* The message rule: the length of the text lies in [min_len, max_len].
message_allowed(text) ==
    /\ Len(text) >= ConfigMessageMinLen
    /\ Len(text) <= ConfigMessageMaxLen

\* C23: every message in the queue, in the hands of the message handler or
\* in the log has a text that satisfies message_allowed.
C23_OnlyAllowedMessagesEnter ==
    /\ \A i \in DOMAIN MESSAGE_QUEUE : message_allowed(MESSAGE_QUEUE[i].text)
    /\ wpc \in {"alloc", "insert"} => message_allowed(wmsg.text)
    /\ \A id \in LogIds : message_allowed(MESSAGE_LIST[id].text)

\* ------------------------------------------------- direct calls of serverconf
IpLine(option, ip) == Line(option, "", 1, ip, NoIp, 0, <<>>)
RangeLine(from, to) == Line("ip-ban-range", "", 2, from, to, 0, <<>>)
NicknameLine(command, num, text) == Line("nickname", command, 1, NoIp, NoIp, num, text)

\* The lines the configuration files are made of: well-formed lines of every
\* option, and lines that fail (a range across families, a pattern that is no
\* regular expression, an unknown option, a length bound that contradicts the
\* other one).
ConfigLines ==
    {Line("", "", 0, NoIp, NoIp, 0, <<>>),
     IpLine("ip-allow", IpAddr(4, 2)), IpLine("ip-allow", IpAddr(6, 2)),
     IpLine("ip-ban", IpAddr(4, 2)), IpLine("ip-ban", IpAddr(6, 2)),
     RangeLine(IpAddr(4, 3), IpAddr(4, 1)), RangeLine(IpAddr(6, 1), IpAddr(6, 2)),
     RangeLine(IpAddr(4, 1), IpAddr(6, 1)),
     NicknameLine("allow", 0, <<114>>), NicknameLine("ban", 114, <<>>),
     NicknameLine("ban", 40, <<>>),
     NicknameLine("min-length", 2, <<>>), NicknameLine("max-length", 1, <<>>),
     IpLine("listen", IpAddr(4, 1)),
     Line("message-length-max", "", 1, NoIp, NoIp, 2, <<>>),
     Line("bogus", "", 0, NoIp, NoIp, 0, <<>>)}

NicknameLines == {line \in ConfigLines : line.option \in {"", "nickname"}}

FilesOf(lines) == UNION {[1..n -> lines] : n \in 0..MaxFileLen}

\* The Config values a caller can hand to append: what a file builds from the
\* defaults.
OtherConfigs == {Config_process_lines(Config_new, file).config : file \in FilesOf(ConfigLines)}

ConfFrame == <<USER_LIST, call, frameVars, sendVars, lockVars, lenVars, logVars, MESSAGE_QUEUE, regVars, crashed, pc, addr, stream,
               nickname, req, cursor, out, auth, k0, listenerVars, workerVars, sent,
               logins>>

\* A direct call: conf takes the result, confcall records the arguments and
\* the outcome.
ConfCall(op, result, rollback, readable, lines, other) ==
    /\ confops < MaxConfOps
    /\ confops' = confops + 1
    /\ conf' = result.config
    /\ confcall' = [op |-> op, ok |-> result.ok, rollback |-> rollback,
                    readable |-> readable, lines |-> lines, other |-> other]
    /\ UNCHANGED ConfFrame

ConfProcessLine(line) ==
    ConfCall("process_line", Config_process_line(conf, line), FALSE, TRUE, <<line>>,
             Config_new)

ConfProcessFile(readable, lines, rollback_on_error) ==
    ConfCall("process_file", Config_process_file(conf, readable, lines, rollback_on_error),
             rollback_on_error, readable, lines, Config_new)

ConfNicknameProcessString(lines, rollback_on_error) ==
    LET result == NicknameFilteringConfig_process_string(conf.nickname_filtering, lines,
                                                         rollback_on_error)
    IN  ConfCall("nickname_process_string",
                 [config |-> [conf EXCEPT !.nickname_filtering = result.config],
                  ok |-> result.ok],
                 rollback_on_error, TRUE, lines, Config_new)

ConfAppend(other) ==
    ConfCall("append", Ok(Config_append(conf, other)), FALSE, TRUE, <<>>, other)

NextConf ==
    \/ \E line \in ConfigLines : ConfProcessLine(line)
    \/ \E readable \in BOOLEAN, lines \in FilesOf(ConfigLines), rollback \in BOOLEAN :
          ConfProcessFile(readable, lines, rollback)
    \/ \E lines \in FilesOf(NicknameLines), rollback \in BOOLEAN :
          ConfNicknameProcessString(lines, rollback)
    \/ \E other \in OtherConfigs : ConfAppend(other)

SpecConf == Init /\ [][NextConf]_vars

\* ------------------------------------------------------ configuration claims
\* The nickname rule for a given NicknameFilteringConfig: the allow-list wins,
\* then the length bounds and the banned patterns deny.
nickname_rule(nf, nick) ==
    IF nick \in nf.allowed THEN TRUE
    ELSE IF Len(nick) < nf.min_len \/ Len(nick) > nf.max_len THEN FALSE
    ELSE IF \E i \in DOMAIN nf.banned : is_match(nf.banned[i], nick) THEN FALSE
    ELSE TRUE

\* C24: for every configuration and every nickname, is_allowed returns true
\* if the nickname is in the allow-list, otherwise false if its length is
\* outside [min_len, max_len] or it matches a banned pattern, otherwise true.
C24_NicknameAllowedFollowsRule ==
    \A nick \in Nicks :
        NicknameFilteringConfig_is_allowed(conf.nickname_filtering, nick)
            = nickname_rule(conf.nickname_filtering, nick)

\* The entries of an IpFilteringConfig for one address family.
AllowedOf(ipf, fam) == IF fam = 4 THEN ipf.v4_allowed ELSE ipf.v6_allowed
BannedOf(ipf, fam) == IF fam = 4 THEN ipf.v4_banned ELSE ipf.v6_banned
BannedRangesOf(ipf, fam) == IF fam = 4 THEN ipf.v4_banned_ranges ELSE ipf.v6_banned_ranges

\* The same configuration with every entry of one family taken out.
WithoutFamily(ipf, fam) ==
    IF fam = 4
    THEN [ipf EXCEPT !.v4_allowed = {}, !.v4_banned = {}, !.v4_banned_ranges = {}]
    ELSE [ipf EXCEPT !.v6_allowed = {}, !.v6_banned = {}, !.v6_banned_ranges = {}]

InBannedRange(ipf, ip) ==
    \E range \in BannedRangesOf(ipf, ip.fam) : range[1] <= ip.n /\ ip.n <= range[2]

\* C25: for every configuration and address, is_allowed is true if the
\* address is in the allow-list of its family, otherwise false if it is a
\* banned entry or lies in a banned inclusive range of its family, otherwise
\* true; and the result is the same when every entry of the other family is
\* taken out of the configuration.
C25_IpAllowedFollowsRule ==
    \A ip \in IpAddrs :
        LET ipf == conf.ip_filtering
            result == IpFilteringConfig_is_allowed(ipf, ip)
        IN  /\ ip.n \in AllowedOf(ipf, ip.fam) => result
            /\ (ip.n \notin AllowedOf(ipf, ip.fam)
                /\ (ip.n \in BannedOf(ipf, ip.fam) \/ InBannedRange(ipf, ip))) => ~result
            /\ (ip.n \notin AllowedOf(ipf, ip.fam) /\ ip.n \notin BannedOf(ipf, ip.fam)
                /\ ~InBannedRange(ipf, ip)) => result
            /\ result = IpFilteringConfig_is_allowed(
                            WithoutFamily(ipf, IF ip.fam = 4 THEN 6 ELSE 4), ip)

\* An address that is allow-listed inside a banned range next to one the range
\* bans, while the same value is banned in the other family.
C25_Witness ==
    LET ipf == conf.ip_filtering
    IN  /\ \E ip \in IpAddrs :
              /\ ip.n \in AllowedOf(ipf, ip.fam) /\ InBannedRange(ipf, ip)
              /\ IpFilteringConfig_is_allowed(ipf, ip)
              /\ ip.n \in BannedOf(ipf, IF ip.fam = 4 THEN 6 ELSE 4)
        /\ \E ip \in IpAddrs :
              /\ ip.n \notin AllowedOf(ipf, ip.fam) /\ ip.n \notin BannedOf(ipf, ip.fam)
              /\ InBannedRange(ipf, ip)
              /\ ~IpFilteringConfig_is_allowed(ipf, ip)

\* What it means for the content of one line to be present in a Config.
LineApplied(config, line) ==
    LET ipf == config.ip_filtering
        nf == config.nickname_filtering
    IN  CASE line.option = "ip-allow" -> line.ip1.n \in AllowedOf(ipf, line.ip1.fam)
          [] line.option = "ip-ban" -> line.ip1.n \in BannedOf(ipf, line.ip1.fam)
          [] line.option = "ip-ban-range" ->
                \E range \in BannedRangesOf(ipf, line.ip1.fam) :
                    /\ range[1] <= line.ip1.n /\ line.ip1.n <= range[2]
                    /\ range[1] <= line.ip2.n /\ line.ip2.n <= range[2]
          [] line.option = "nickname" /\ line.command = "allow" -> line.text \in nf.allowed
          [] line.option = "nickname" /\ line.command = "ban" ->
                \E k \in DOMAIN nf.banned : nf.banned[k] = line.num
          [] line.option = "nickname" /\ line.command = "min-length" ->
                nf.min_len = line.num
          [] line.option = "nickname" /\ line.command = "max-length" ->
                nf.max_len = line.num
          [] line.option = "listen" -> line.ip1 \in config.listen_sock_addrs
          [] line.option = "message-length-max" -> config.message_max_len = line.num
          [] OTHER -> TRUE

\* C26: a process_file with rollback_on_error that fails (the file cannot be
\* read, or one of its lines fails) leaves the Config exactly as it was; one
\* that succeeds leaves the content of every line of the file in the Config.
\* The same holds for NicknameFilteringConfig::process_string.
C26_RollbackIsAllOrNothing ==
    [][(confops' = confops + 1 /\ confcall'.rollback) =>
          LET lines == confcall'.lines
              parses ==
                  IF confcall'.op = "process_file"
                  THEN confcall'.readable /\ Config_process_lines(Config_new, lines).ok
                  ELSE NicknameFilteringConfig_process_lines(NicknameFilteringConfig_new,
                                                             lines).ok
          IN  IF parses
              THEN /\ confcall'.ok
                   /\ \A k \in DOMAIN lines : LineApplied(conf', lines[k])
              ELSE ~confcall'.ok /\ conf' = conf]_vars

\* A process_file with rollback has failed after a first line that parses and
\* has an effect, on a Config that an earlier call had already changed.
C26_Witness ==
    /\ confcall.op = "process_file" /\ confcall.rollback /\ ~confcall.ok
    /\ confcall.readable /\ Len(confcall.lines) = MaxFileLen
    /\ Config_process_line(Config_new, confcall.lines[1]).ok
    /\ Config_process_line(Config_new, confcall.lines[1]).config # Config_new
    /\ conf # Config_new

Elems(seq) == {seq[k] : k \in DOMAIN seq}

\* C27: after self.append(other) the length scalars of self (message and
\* nickname minimum and maximum) are those of other, and every collection
\* (listen addresses, the six IP sets, the nickname allow set, the banned
\* patterns) holds exactly the entries self had before and the entries of
\* other.
C27_AppendOverwritesAndUnites ==
    [][(confops' = confops + 1 /\ confcall'.op = "append") =>
          LET other == confcall'.other
          IN  /\ conf'.message_max_len = other.message_max_len
              /\ conf'.message_min_len = other.message_min_len
              /\ conf'.nickname_filtering.min_len = other.nickname_filtering.min_len
              /\ conf'.nickname_filtering.max_len = other.nickname_filtering.max_len
              /\ conf'.listen_sock_addrs = conf.listen_sock_addrs \cup other.listen_sock_addrs
              /\ \A fam \in {4, 6} :
                    /\ AllowedOf(conf'.ip_filtering, fam)
                         = AllowedOf(conf.ip_filtering, fam)
                           \cup AllowedOf(other.ip_filtering, fam)
                    /\ BannedOf(conf'.ip_filtering, fam)
                         = BannedOf(conf.ip_filtering, fam)
                           \cup BannedOf(other.ip_filtering, fam)
                    /\ BannedRangesOf(conf'.ip_filtering, fam)
                         = BannedRangesOf(conf.ip_filtering, fam)
                           \cup BannedRangesOf(other.ip_filtering, fam)
              /\ conf'.nickname_filtering.allowed
                   = conf.nickname_filtering.allowed \cup other.nickname_filtering.allowed
              /\ Elems(conf'.nickname_filtering.banned)
                   = Elems(conf.nickname_filtering.banned)
                     \cup Elems(other.nickname_filtering.banned)]_vars

\* An append has overwritten a message length bound and united IP entries of
\* self with different entries of other.
C27_Witness ==
    /\ confcall.op = "append"
    /\ confcall.other.message_max_len # NonZeroU16Max
    /\ conf.message_max_len = confcall.other.message_max_len
    /\ confcall.other.ip_filtering.v4_banned # {}
    /\ confcall.other.ip_filtering.v6_allowed = {}
    /\ conf.ip_filtering.v6_allowed # {}

\* --------------------------------------------------------- directory claims
\* C28: verify_password returns true exactly when the nickname is registered
\* and the hash of the candidate equals the stored hash; for an unknown
\* nickname and for a wrong password alike it returns a plain false; the
\* call leaves the directory as it was.
C28_VerifyIsPlainBoolean ==
    [][\A nick \in Nicks, password \in Passwords :
          DirVerify(nick, password) =>
              /\ call'.ok = (/\ nick \in DOMAIN USER_LIST
                             /\ USER_LIST[nick].hash = encrypt_password(password))
              /\ ~call'.err
              /\ USER_LIST' = USER_LIST]_vars

\* C30: add_user fails if the nickname is already registered or is not a
\* valid nickname (empty, or with a byte below 0x20 or above 0x7E) and then
\* leaves the directory unchanged; an add_user that succeeds was given a
\* valid nickname that was not registered, and leaves it in the directory
\* with no last delivered id and every other user as before.
C30_AddUserContract ==
    [][\A s \in Sessions :
          /\ (AddUserCheck(s) /\ (~is_valid_nickname(req[s].nick)
                                  \/ req[s].nick \in DOMAIN USER_LIST)) =>
                 (pc'[s] # "add_insert" /\ USER_LIST' = USER_LIST)
          /\ AddUserInsert(s) =>
                 /\ is_valid_nickname(req[s].nick)
                 /\ req[s].nick \notin DOMAIN USER_LIST
                 /\ req[s].nick \in DOMAIN USER_LIST'
                 /\ USER_LIST'[req[s].nick].last = None
                 /\ \A nick \in DOMAIN USER_LIST : USER_LIST'[nick] = USER_LIST[nick]]_vars

\* ------------------------------------------------ recv_command on one stream
MaxWire == 6

\* The bytes a peer writes: 0 and 1 (also as header bytes), 67 which stands for
\* the JSON text of a command, and 255 which no UTF-8 text contains.
WireBytes == {0, 1, 67, 255}

\* u32::from_be_bytes. A value of 2^31 or more is kept as 2^31 - 1 (the
\* largest integer of the model checker), which is likewise more than the
\* peer writes within MaxWire.
from_be_bytes(buffer) ==
    IF buffer[1] >= 128 THEN 2147483647
    ELSE buffer[1] * 16777216 + buffer[2] * 65536 + buffer[3] * 256 + buffer[4]

\* String::from_utf8
from_utf8(bytes) ==
    IF \E k \in DOMAIN bytes : bytes[k] > 127 THEN None ELSE Some(bytes)

\* serde_json::from_str for c2s::Command: the empty text and a text that is
\* not the JSON of a command are errors.
from_str(string) == IF string = <<67>> THEN Some("Command") ELSE None

\* decrypt (main.rs) is the identity; then from_utf8 and from_str.
decode(payload) ==
    IF from_utf8(payload) = None THEN None ELSE from_str(from_utf8(payload)[1])

FrameFrame == <<USER_LIST, call, conf, confcall, confops, sendVars, lockVars, lenVars, logVars, MESSAGE_QUEUE, regVars,
                crashed, pc, addr, stream, nickname, req, cursor, out, auth, k0,
                listenerVars, workerVars, sent, logins>>

PeerWrite(byte) ==
    /\ ~closed /\ Len(wire) < MaxWire
    /\ wire' = Append(wire, byte)
    /\ UNCHANGED <<closed, rpos, rpc, rlen, rresult, FrameFrame>>

PeerClose ==
    /\ ~closed
    /\ closed' = TRUE
    /\ UNCHANGED <<wire, rpos, rpc, rlen, rresult, FrameFrame>>

\* recv_command up to the header: one read into a buffer of four bytes, which
\* returns 0 at the end of the stream and otherwise between one byte and as
\* many as have arrived and fit.
RecvHeader(read_bytes) ==
    /\ rpc = "header"
    /\ IF read_bytes = 0 THEN closed /\ Len(wire) = rpos
       ELSE read_bytes <= Len(wire) - rpos
    /\ rpos' = rpos + read_bytes
    /\ IF read_bytes = 0
       THEN rresult' = "Ok(None)" /\ rpc' = "done" /\ UNCHANGED rlen
       ELSE IF read_bytes < 4
       THEN rresult' = "UnexpectedEof" /\ rpc' = "done" /\ UNCHANGED rlen
       ELSE /\ rlen' = from_be_bytes(SubSeq(wire, rpos + 1, rpos + 4))
            /\ rpc' = "payload"
            /\ rresult' = "none"
    /\ UNCHANGED <<wire, closed, FrameFrame>>

\* recv_command from read_exact on: it waits for data_len bytes, fails with
\* UnexpectedEof if the stream ends before, and decodes the payload.
RecvPayload ==
    /\ rpc = "payload"
    /\ IF Len(wire) - rpos >= rlen
       THEN /\ rpos' = rpos + rlen
            /\ IF decode(SubSeq(wire, rpos + 1, rpos + rlen)) = None
               THEN rresult' = "InvalidData" /\ rpc' = "done"
               ELSE rresult' = "Ok(Some)" /\ rpc' = "header"
       ELSE /\ closed
            /\ rpos' = Len(wire)
            /\ rresult' = "UnexpectedEof" /\ rpc' = "done"
    /\ UNCHANGED <<wire, closed, rlen, FrameFrame>>

NextFrame ==
    \/ \E byte \in WireBytes : PeerWrite(byte)
    \/ PeerClose
    \/ \E read_bytes \in 0..4 : RecvHeader(read_bytes)
    \/ RecvPayload

SpecFrame == Init /\ [][NextFrame]_vars

\* C29: recv_command returns Ok(None) exactly when the stream has ended at a
\* frame boundary; it returns UnexpectedEof exactly when the stream has ended
\* after 1 to 3 bytes of a header or before the end of a payload; a frame of
\* length 0 and a payload that does not decode give InvalidData, after which
\* the call has returned and the thread goes on.
C29_FrameReading ==
    [][/\ \A read_bytes \in 0..4 :
              RecvHeader(read_bytes) =>
                  /\ rresult' = "Ok(None)" <=> (closed /\ Len(wire) = rpos)
                  /\ rresult' = "UnexpectedEof"
                       <=> (closed /\ Len(wire) - rpos >= 1 /\ Len(wire) - rpos <= 3)
       /\ RecvPayload =>
              /\ rresult' = "UnexpectedEof" <=> (closed /\ Len(wire) - rpos < rlen)
              /\ (Len(wire) - rpos >= rlen
                  /\ (rlen = 0 \/ decode(SubSeq(wire, rpos + 1, rpos + rlen)) = None))
                 => (rresult' = "InvalidData" /\ rpc' = "done")]_vars

\* ------------------------------------------------------------ listener claims
\* The receive loop of the session has started and has not ended.
\* ------------------------------------------------ the write path of a stream
\* One connected client whose stream is open, written to by its own client
\* thread through Client::send_command and Client::error, and by the message
\* handler through the registry's handle of the same stream. Each write_all
\* hands one chunk to the peer.
MaxSends == 2
MaxInfos == 2

SendCommands == {"LoginSuccess", "MessageRecv", "Error"}

Chunk(by, n, cmd, part) == [by |-> by, n |-> n, cmd |-> cmd, part |-> part]

SendFrame == <<USER_LIST, call, conf, confcall, confops, frameVars, lockVars, lenVars, logVars, MESSAGE_QUEUE,
               regVars, crashed, pc, addr, stream, nickname, req, cursor, out, auth, k0,
               listenerVars, workerVars, sent, logins>>

\* After send_command has returned: error() goes on to its reset, any other
\* caller is done.
after_send(cmd) == IF cmd = "Error" THEN "reset" ELSE "idle"

\* send_command up to self.stream.write(): the client thread takes the write
\* lock of its stream. A cmd of Error is the call made by error().
SendBegin(cmd) ==
    /\ spc = "idle" /\ ~slock /\ nsend.client < MaxSends
    /\ slock' = TRUE
    /\ spc' = "len"
    /\ scmd' = cmd
    /\ nsend' = [nsend EXCEPT !.client = @ + 1]
    /\ UNCHANGED <<ipc, peer, sstream, SendFrame>>

\* send_command: write_all of the length prefix; on a reset stream it fails,
\* the ? returns and drops the lock.
SendLen ==
    /\ spc = "len"
    /\ IF sstream = "open"
       THEN /\ peer' = Append(peer, Chunk("client", nsend.client, scmd, "len"))
            /\ spc' = "payload"
            /\ UNCHANGED slock
       ELSE /\ slock' = FALSE
            /\ spc' = after_send(scmd)
            /\ UNCHANGED peer
    /\ UNCHANGED <<scmd, ipc, sstream, nsend, SendFrame>>

\* send_command: write_all of the payload and flush, then the lock is dropped.
SendPayload ==
    /\ spc = "payload"
    /\ peer' = IF sstream = "open"
               THEN Append(peer, Chunk("client", nsend.client, scmd, "payload"))
               ELSE peer
    /\ slock' = FALSE
    /\ spc' = after_send(scmd)
    /\ UNCHANGED <<scmd, ipc, sstream, nsend, SendFrame>>

\* error(), after its send_command has returned: the lock is taken again,
\* finish_write and reset.
ErrorReset ==
    /\ spc = "reset" /\ ~slock
    /\ sstream' = "reset"
    /\ spc' = "idle"
    /\ UNCHANGED <<slock, scmd, ipc, peer, nsend, SendFrame>>

\* handle_msg's closure: info.stream.try_clone() of the handle kept in
\* ClientInfo, and client::send_info on it up to the length prefix. The lock
\* of Client is not involved: ClientInfo holds the stream itself. On a reset
\* stream the send fails, and so does everything client::handle_err writes.
InfoLen ==
    /\ ipc = "idle" /\ nsend.handler < MaxInfos
    /\ nsend' = [nsend EXCEPT !.handler = @ + 1]
    /\ IF sstream = "open"
       THEN /\ peer' = Append(peer, Chunk("handler", nsend.handler + 1, "MessageRecv", "len"))
            /\ ipc' = "payload"
       ELSE UNCHANGED <<peer, ipc>>
    /\ UNCHANGED <<slock, spc, scmd, sstream, SendFrame>>

\* client::send_info: the payload of the frame.
InfoPayload ==
    /\ ipc = "payload"
    /\ peer' = IF sstream = "open"
               THEN Append(peer, Chunk("handler", nsend.handler, "MessageRecv", "payload"))
               ELSE peer
    /\ ipc' = "idle"
    /\ UNCHANGED <<slock, spc, scmd, sstream, nsend, SendFrame>>

NextSend ==
    \/ \E cmd \in SendCommands : SendBegin(cmd)
    \/ SendLen
    \/ SendPayload
    \/ ErrorReset
    \/ InfoLen
    \/ InfoPayload

SpecSend == Init /\ [][NextSend]_vars


\* C31: a session whose receive loop has started was registered before: no
\* session runs its loop while the listener still has to register it, no
\* remove_connection finds its key absent, and no add_connection inserts the
\* entry of a session whose loop has already ended.
C31_RegisteredBeforeLoop ==
    /\ [](\A s \in Sessions : pc[s] # "unborn" => lsess # s)
    /\ [][/\ \A s \in Sessions :
                (RemoveConnection(s) /\ ~poisoned) => registry_has(CLIENT_LIST, addr[s])
          /\ (AddConnection /\ ~poisoned) => pc[lsess] # "done"]_vars

\* C32: a failed incoming connection leaves the listener in its accept loop:
\* the listener thread neither ends nor panics, and it accepts the next
\* connection.
C32_AcceptErrorContinues == [][AcceptError => lpc' = "accept"]_vars

\* ------------------------------------------------------------- replay claims
\* C33: in a backlog replay no MessageRecv is sent after a send has failed:
\* with the message handler idle, the callback of the replay never runs on a
\* stream that error() has already reset.
C33_ReplayStopsAtFirstFailure ==
    [][\A s \in Sessions :
          (LoginReplay(s) /\ messages_newer_than(cursor[s]) # {}) =>
              stream[s] # "reset"]_vars

\* Chunk i of the peer's bytes and the next one are the length prefix and the
\* payload of one frame.
SameFrame(i) ==
    /\ peer[i].part = "len" /\ peer[i + 1].part = "payload"
    /\ peer[i].by = peer[i + 1].by /\ peer[i].n = peer[i + 1].n

\* C34: the bytes the peer of a session receives are a concatenation of whole
\* frames: every length prefix is directly followed by the payload of the same
\* frame (or is the last chunk so far), and every payload directly follows its
\* own length prefix, whichever threads send at the same time.
C34_WholeFrames ==
    \A i \in 1..Len(peer) :
        /\ peer[i].part = "len" => (i = Len(peer) \/ SameFrame(i))
        /\ peer[i].part = "payload" => (i > 1 /\ SameFrame(i - 1))

\* ------------------------------------------------------------- lock order
\* The locks of the server and the order in which each thread takes and drops
\* them. A call is the sequence of its lock operations in source order; a
\* temporary guard is taken and dropped at once.
MaxCalls == 2

Locks == {"CLIENT_LIST", "stream", "nickname", "USER_LIST", "MESSAGE_LIST", "LAST_ID",
          "MESSAGE_QUEUE", "logger"}
SessionLocks == {"stream", "nickname"}

Acq(lock, mode) == [op |-> "acquire", lock |-> lock, mode |-> mode]
Rel(lock) == [op |-> "release", lock |-> lock, mode |-> "none"]
Take(lock, mode) == <<Acq(lock, mode), Rel(lock)>>

log_locks == Take("logger", "write")
is_err_locks == Take("stream", "read")
recv_command_locks == Take("stream", "read")
send_command_locks == Take("stream", "write")
error_locks == send_command_locks \o Take("stream", "write")
nickname_locks == Take("nickname", "write")
exists_locks == Take("USER_LIST", "read")
add_user_locks == exists_locks \o Take("USER_LIST", "write")
verify_password_locks == Take("USER_LIST", "read")
get_last_sent_msg_id_locks == Take("USER_LIST", "write")
set_last_sent_msg_id_locks == Take("USER_LIST", "write")
get_nickname_locks == Take("CLIENT_LIST", "read")
add_connection_locks == Take("CLIENT_LIST", "write")
remove_connection_locks == Take("CLIENT_LIST", "write")
pop_locks == Take("MESSAGE_QUEUE", "write")
message_list_push_locks == Take("LAST_ID", "write") \o Take("MESSAGE_LIST", "write")

\* message_queue::push: the sender is looked up first, then the queue's guard
\* lives for the one statement that pushes.
message_queue_push_locks == get_nickname_locks \o Take("MESSAGE_QUEUE", "write")

\* for_messages_newer_than: the read guard is held while the callback runs.
for_messages_newer_than_locks(callback) ==
    <<Acq("MESSAGE_LIST", "read")>> \o callback \o <<Rel("MESSAGE_LIST")>>

\* for_each: the read guard is held while the closure runs.
for_each_locks(f) == <<Acq("CLIENT_LIST", "read")>> \o f \o <<Rel("CLIENT_LIST")>>

\* Client::login with a right or wrong password and a replay whose send
\* succeeds or fails.
login_locks(password_ok, replay_ok) ==
    verify_password_locks
    \o (IF password_ok
        THEN send_command_locks \o nickname_locks \o log_locks
             \o get_last_sent_msg_id_locks
             \o for_messages_newer_than_locks(
                    send_command_locks \o (IF replay_ok THEN <<>> ELSE error_locks))
        ELSE error_locks \o log_locks \o send_command_locks \o error_locks)

register_locks == add_user_locks \o nickname_locks \o log_locks

\* Client::on_login: the four outcomes of (is_registering, is_present).
on_login_locks ==
    {exists_locks \o handler :
        handler \in {login_locks(ok, replay) : ok \in BOOLEAN, replay \in BOOLEAN}
                    \cup {register_locks, error_locks \o log_locks}}

\* Client::on_message, logged in or not.
on_message_locks ==
    {nickname_locks \o message_queue_push_locks, nickname_locks \o error_locks \o log_locks}

\* Client::client_thread: one iteration of the loop (a command, the end of
\* the stream, a receive error), or the exit after the stream has errored.
client_thread_locks ==
    {is_err_locks \o recv_command_locks \o handler :
        handler \in on_login_locks \cup on_message_locks
                    \cup {Take("stream", "write"), error_locks}}
    \cup {is_err_locks \o remove_connection_locks}

\* client::handle_err for a failed recipient: the session's error handling.
handle_err_locks == error_locks

\* A handle_msg whose failure handling also removes the failed client.
handle_msg_removes_failed(sent_ok) ==
    log_locks \o message_list_push_locks
    \o for_each_locks(IF sent_ok THEN set_last_sent_msg_id_locks
                      ELSE handle_err_locks \o remove_connection_locks)

\* handle_msg: log, message_list::push, then for_each with one client in the
\* registry; the send goes to a clone of the stream and takes no lock.
handle_msg_locks(sent_ok) ==
    log_locks \o message_list_push_locks
    \o for_each_locks(IF sent_ok THEN set_last_sent_msg_id_locks ELSE handle_err_locks)

\* handle_incoming: one turn of the loop, with a message or without.
handle_incoming_locks ==
    {pop_locks} \cup {pop_locks \o handle_msg_locks(sent_ok) : sent_ok \in BOOLEAN}

\* listen: one accepted connection.
listen_locks == {add_connection_locks}

Calls(t) ==
    IF t = "client" THEN client_thread_locks
    ELSE IF t = "handler" THEN handle_incoming_locks
    ELSE listen_locks

LockFrame == <<USER_LIST, call, conf, confcall, confops, frameVars, sendVars, lenVars, logVars,
               MESSAGE_QUEUE, regVars, crashed, pc, addr, stream, nickname, req, cursor,
               out, auth, k0, listenerVars, workerVars, sent, logins>>

Holds(t, lock) == \E h \in held[t] : h.lock = lock

\* RwLock: a write guard needs the lock free, a read guard needs it free of a
\* write guard; a thread asking again for a lock it holds waits for itself.
CanAcquire(t, lock, mode) ==
    LET guards == UNION {held[u] : u \in Threads}
    IN  IF mode = "write"
        THEN \A h \in guards : h.lock # lock
        ELSE \A h \in guards : h.lock = lock => (h.mode = "read" /\ ~Holds(t, lock))

LockCall(t, ops) ==
    /\ prog[t] = <<>> /\ ncalls[t] < MaxCalls
    /\ prog' = [prog EXCEPT ![t] = ops]
    /\ ncalls' = [ncalls EXCEPT ![t] = @ + 1]
    /\ UNCHANGED <<held, LockFrame>>

Acquire(t) ==
    /\ prog[t] # <<>> /\ Head(prog[t]).op = "acquire"
    /\ CanAcquire(t, Head(prog[t]).lock, Head(prog[t]).mode)
    /\ held' = [held EXCEPT ![t] = @ \cup {[lock |-> Head(prog[t]).lock,
                                            mode |-> Head(prog[t]).mode]}]
    /\ prog' = [prog EXCEPT ![t] = Tail(@)]
    /\ UNCHANGED <<ncalls, LockFrame>>

Release(t) ==
    /\ prog[t] # <<>> /\ Head(prog[t]).op = "release"
    /\ held' = [held EXCEPT ![t] = {h \in @ : h.lock # Head(prog[t]).lock}]
    /\ prog' = [prog EXCEPT ![t] = Tail(@)]
    /\ UNCHANGED <<ncalls, LockFrame>>

NextLocks ==
    \E t \in Threads :
        \/ \E ops \in Calls(t) : LockCall(t, ops)
        \/ Acquire(t)
        \/ Release(t)

SpecLocks == Init /\ [][NextLocks]_vars

\* Thread t is about to ask for lock in mode.
Requests(t, lock, mode) ==
    /\ prog[t] # <<>>
    /\ Head(prog[t]) = Acq(lock, mode)

Waiting(t) ==
    /\ prog[t] # <<>> /\ Head(prog[t]).op = "acquire"
    /\ ~CanAcquire(t, Head(prog[t]).lock, Head(prog[t]).mode)

\* Every thread that is inside a call waits for a lock: nothing is ever
\* released again.
Deadlocked ==
    /\ \E t \in Threads : Waiting(t)
    /\ \A t \in Threads : prog[t] = <<>> \/ Waiting(t)

BanRangeCall ==
    /\ confops' = confops + 1
    /\ confcall'.op = "process_line"
    /\ confcall'.lines[1].option = "ip-ban-range"

\* C36: ban_range with both bounds of one address family bans exactly the
\* addresses from the smaller to the greater bound, both included, whichever
\* bound is given first, so the line with the bounds swapped gives the same
\* configuration; with bounds of different families it is an error and the
\* configuration is unchanged.
C36_BanRangeOrdersItsBounds ==
    [][BanRangeCall =>
         LET from == confcall'.lines[1].ip1
             to == confcall'.lines[1].ip2
         IN  IF from.fam = to.fam
             THEN /\ confcall'.ok
                  /\ \A ip \in IpAddrs :
                        InBannedRange(conf'.ip_filtering, ip)
                        <=> \/ InBannedRange(conf.ip_filtering, ip)
                            \/ /\ ip.fam = from.fam
                               /\ Min({from.n, to.n}) <= ip.n
                               /\ ip.n <= Max({from.n, to.n})
                  /\ conf' = Config_process_line(conf, RangeLine(to, from)).config
             ELSE ~confcall'.ok /\ conf' = conf]_vars

\* A range given with from > to has been banned, and a later range across
\* families has been refused.
C36_Witness ==
    /\ confcall.op = "process_line" /\ ~confcall.ok
    /\ confcall.lines[1].option = "ip-ban-range"
    /\ confcall.lines[1].ip1.fam # confcall.lines[1].ip2.fam
    /\ conf.ip_filtering.v4_banned_ranges = {<<1, MaxIp>>}
    /\ ~IpFilteringConfig_is_allowed(conf.ip_filtering, IpAddr(4, 2))

\* C37: a user without a last delivered id receives, on its next login that
\* succeeds, every message the log holds at that moment: the login goes on to
\* the replay of the whole log and does not end while the log holds messages.
C37_NoLastIdReplaysWholeLog ==
    [][\A s \in Sessions :
          (LoginGetLast(s) /\ get_last_sent_msg_id(nickname[s][1]) = None
                           /\ DOMAIN MESSAGE_LIST # {})
              => (pc'[s] = "replay" /\ cursor'[s] = 0)]_vars

\* C38: of the sessions that register one nickname at the same time at most
\* one ends up logged in by its registration, and a registration never
\* replaces the entry (hash, last delivered id) of a user that exists.
C38_OneRegistrationWins ==
    /\ [](\A s1 \in Sessions, s2 \in Sessions :
             (auth[s1] = "register" /\ auth[s2] = "register" /\ nickname[s1] # None
              /\ nickname[s1] = nickname[s2]) => s1 = s2)
    /\ [][\A s \in Sessions :
             AddUserInsert(s) =>
                 \A nick \in DOMAIN USER_LIST : USER_LIST'[nick] = USER_LIST[nick]]_vars

\* The peer has received the whole Error frame of an error().
ErrorFrameSent == \E i \in 1..Len(peer) : peer[i].cmd = "Error" /\ peer[i].part = "payload"

\* C39: an Error frame is the last thing the peer of a session receives: once
\* error() has written it, nothing more is written to that stream, neither
\* by the client thread nor by the message handler's fan-out before the
\* stream is reset.
C39_ErrorIsLastFrame == [][ErrorFrameSent => peer' = peer]_vars

\* --------------------------------------------- the length bounds of a filter
\* Direct calls of set_min_len, set_max_len, process_line and append on a
\* NicknameFilteringConfig and on a MessageFilteringConfig, from the defaults.
MaxLenOps == 3

Filters == {"nickname", "message"}
\* Lengths a caller passes as NonZeroU8 or NonZeroU16.
LenArgs == {1, 2, 3}
\* Numbers a line can carry: 0 does not parse.
LenNums == {0, 2, 3}

LenLines ==
    {Line(which, command, 1, NoIp, NoIp, num, <<>>) :
        which \in Filters, command \in {"min-length", "max-length"}, num \in LenNums}

LenFrame == <<USER_LIST, call, conf, confcall, confops, frameVars, sendVars, lockVars, logVars,
              MESSAGE_QUEUE, regVars, crashed, pc, addr, stream, nickname, req, cursor,
              out, auth, k0, listenerVars, workerVars, sent, logins>>

filter_new(which) ==
    IF which = "nickname" THEN NicknameFilteringConfig_new ELSE MessageFilteringConfig_new

filter_set_min_len(which, self, min_len) ==
    IF which = "nickname" THEN set_min_len(self, min_len)
    ELSE MessageFilteringConfig_set_min_len(self, min_len)

filter_set_max_len(which, self, max_len) ==
    IF which = "nickname" THEN set_max_len(self, max_len)
    ELSE MessageFilteringConfig_set_max_len(self, max_len)

filter_process_line(which, self, line) ==
    IF which = "nickname" THEN NicknameFilteringConfig_process_line(self, line)
    ELSE MessageFilteringConfig_process_line(self, line)

filter_append(which, self, other) ==
    IF which = "nickname" THEN NicknameFilteringConfig_append(self, other)
    ELSE MessageFilteringConfig_append(self, other)

\* The values a caller can hand to append: what two lines build from the
\* defaults (a line that fails changes nothing).
LenOthers(which) ==
    {filter_process_line(which, filter_process_line(which, filter_new(which), l1).config,
                         l2).config :
        l1 \in {l \in LenLines : l.option = which}, l2 \in {l \in LenLines : l.option = which}}

LenCall(which, op, command, num, result) ==
    /\ lenops < MaxLenOps
    /\ lenops' = lenops + 1
    /\ lenconf' = [lenconf EXCEPT ![which] = result.config]
    /\ lencall' = [which |-> which, op |-> op, command |-> command, num |-> num,
                   ok |-> result.ok]
    /\ UNCHANGED LenFrame

LenSetMin(which, min_len) ==
    LenCall(which, "set_min_len", "", min_len,
            filter_set_min_len(which, lenconf[which], min_len))

LenSetMax(which, max_len) ==
    LenCall(which, "set_max_len", "", max_len,
            filter_set_max_len(which, lenconf[which], max_len))

LenProcessLine(line) ==
    LenCall(line.option, "process_line", line.command, line.num,
            filter_process_line(line.option, lenconf[line.option], line))

LenAppend(which, other) ==
    LenCall(which, "append", "", 0, Ok(filter_append(which, lenconf[which], other)))

NextLen ==
    \/ \E which \in Filters, min_len \in LenArgs : LenSetMin(which, min_len)
    \/ \E which \in Filters, max_len \in LenArgs : LenSetMax(which, max_len)
    \/ \E line \in LenLines : LenProcessLine(line)
    \/ \E which \in Filters : \E other \in LenOthers(which) : LenAppend(which, other)

SpecLen == Init /\ [][NextLen]_vars

\* C40: in a NicknameFilteringConfig and in a MessageFilteringConfig the
\* minimum length is never above the maximum length, whatever sequence of
\* set_min_len, set_max_len, process_line and append is applied to the
\* defaults; a set_min_len above the maximum and a set_max_len below the
\* minimum return an error and change nothing.
C40_MinLenAtMostMaxLen ==
    /\ [](\A which \in Filters : lenconf[which].min_len <= lenconf[which].max_len)
    /\ [][lenops' = lenops + 1 =>
             LET which == lencall'.which
                 refused == \/ lencall'.op = "set_min_len" /\ lencall'.num > lenconf[which].max_len
                            \/ lencall'.op = "set_max_len" /\ lencall'.num < lenconf[which].min_len
             IN  /\ refused => (~lencall'.ok /\ lenconf' = lenconf)
                 /\ (lencall'.op \in {"set_min_len", "set_max_len"} /\ ~refused)
                        => lencall'.ok]_vars

\* Both filters have had their bounds moved, and a set_min_len above the
\* maximum of the message filter has just been refused.
C40_Witness ==
    /\ lencall.which = "message" /\ lencall.op = "set_min_len" /\ ~lencall.ok
    /\ lencall.num > lenconf.message.max_len
    /\ lenconf.nickname.min_len > 1
    /\ lenconf.nickname.max_len < ConfigMaxLen

============================================================================
